---- MODULE Spec2Model ----
(***************************************************************************)
(* A model of the RLPx transport of taiyuechain (src/p2p/rlpx.go) and of   *)
(* the crypto suite it calls (src/crypto/crypto.go, signature_cgo.go).     *)
(*                                                                         *)
(* Byte strings are run-length encoded: a byte string is a sequence of     *)
(* runs [x, o, n], the n bytes x[o], x[o+1], .. of a symbolic source x.    *)
(* Cryptographic primitives are ideal: a digest, a ciphertext or a key     *)
(* agreement is a term over its inputs, and two terms are equal only if    *)
(* they are built the same way.  Lengths and stream positions are natural  *)
(* numbers of any size, held as two limbs in base 2^24.                    *)
(***************************************************************************)
EXTENDS Integers, Sequences, FiniteSets, TLC

(***************************************************************************)
(* Program constants (src/p2p/rlpx.go, const block).                       *)
(***************************************************************************)
maxUint24 == 16777215
sskLen == 16
sigLen == 98
pubLen == 64
shaLen == 32
authRLPDecLen == 0 - 25
authRespRLPIncLen == 5
certSize == 2
authMsgLen == sigLen + shaLen + pubLen + shaLen + 1 + authRLPDecLen + certSize
authRespLen == pubLen + shaLen + 1 + authRespRLPIncLen + certSize
eciesOverhead == 65 + 16 + 32
encAuthMsgLen == authMsgLen + eciesOverhead
encAuthRespLen == authRespLen + eciesOverhead
TaiRLPXVersion == 15

(***************************************************************************)
(* Bounds of the model.                                                    *)
(***************************************************************************)
NumNonces == 2
NumEphemeral == 2
MaxFrames == 2
MaxTamper == 1

(***************************************************************************)
(* Unsigned arithmetic.  A number is <<hi, lo>> = hi * 2^24 + lo.          *)
(***************************************************************************)
Limb == maxUint24 + 1
Z == <<0, 0>>
Big(k) == <<k \div Limb, k % Limb>>
BAdd(a, b) == <<a[1] + b[1] + ((a[2] + b[2]) \div Limb), (a[2] + b[2]) % Limb>>
BSub(a, b) == IF a[2] >= b[2] THEN <<a[1] - b[1], a[2] - b[2]>>
              ELSE <<a[1] - b[1] - 1, a[2] - b[2] + Limb>>
BLt(a, b) == a[1] < b[1] \/ (a[1] = b[1] /\ a[2] < b[2])
BLe(a, b) == a = b \/ BLt(a, b)
BMin(a, b) == IF BLt(a, b) THEN a ELSE b
\* conversion to uint32: the value modulo 2^32
Uint32(a) == <<a[1] % 256, a[2]>>
\* conversion to uint16: the value modulo 2^16
Uint16(k) == k % 65536

(***************************************************************************)
(* Byte strings.                                                           *)
(***************************************************************************)
IsConst(r) == r.x[1] = "c"
BlobB(x, n) == IF n = Z THEN <<>> ELSE <<[x |-> x, o |-> Z, n |-> n]>>
Blob(x, k) == BlobB(x, Big(k))
ConstB(b, n) == IF n = Z THEN <<>> ELSE <<[x |-> <<"c", b>>, o |-> Z, n |-> n]>>
Const(b, k) == ConstB(b, Big(k))
\* the bytes b1, b2, .. of a sequence of byte values
Mergeable(r, q) == /\ r.x[1] = q.x[1]
                   /\ r.x = q.x
                   /\ (IsConst(r) \/ q.o = BAdd(r.o, r.n))
Cat(s, t) ==
  IF s = <<>> THEN t
  ELSE IF t = <<>> THEN s
  ELSE IF Mergeable(s[Len(s)], t[1])
  THEN SubSeq(s, 1, Len(s) - 1) \o <<[s[Len(s)] EXCEPT !.n = BAdd(@, t[1].n)]>> \o Tail(t)
  ELSE s \o t
RECURSIVE Bytes(_)
Bytes(bs) == IF bs = <<>> THEN <<>> ELSE Cat(Const(bs[1], 1), Bytes(Tail(bs)))
RECURSIVE BLen(_)
BLen(s) ==
  IF s = <<>> THEN Z
  ELSE IF Len(s) = 1 THEN s[1].n
  ELSE BAdd(BLen(SubSeq(s, 1, Len(s) \div 2)), BLen(SubSeq(s, Len(s) \div 2 + 1, Len(s))))
\* s[:k] and s[k:], for k <= len(s)
RECURSIVE TakeB(_, _)
TakeB(s, k) ==
  IF k = Z \/ s = <<>> THEN <<>>
  ELSE IF BLe(s[1].n, k) THEN <<s[1]>> \o TakeB(Tail(s), BSub(k, s[1].n))
  ELSE <<[s[1] EXCEPT !.n = k]>>
RECURSIVE DropB(_, _)
DropB(s, k) ==
  IF k = Z \/ s = <<>> THEN s
  ELSE IF BLe(s[1].n, k) THEN DropB(Tail(s), BSub(k, s[1].n))
  ELSE <<[s[1] EXCEPT !.n = BSub(@, k),
                      !.o = IF IsConst(s[1]) THEN Z ELSE BAdd(@, k)]>> \o Tail(s)
SliceB(s, from, to) == TakeB(DropB(s, from), BSub(to, from))
\* the value of the single byte s[k], when it is a known constant; -1 otherwise
FirstByte(r) == IF r # <<>> /\ IsConst(r[1]) THEN r[1].x[2] ELSE 0 - 1
ByteAt(s, k) == FirstByte(DropB(s, Big(k)))

(***************************************************************************)
(* State.                                                                  *)
(***************************************************************************)
VARIABLES
  CryptoType,  \* crypto.CryptoType, the process-wide suite selector
  cfg,         \* per side, outliving a connection: static key, dialled key,
               \* version constant, certificate, outcome of an earlier connection
  pc,          \* per side: position in initiatorEncHandshake / receiverEncHandshake
  h,           \* per side: the encHandshake
  loc,         \* per side: locals of the handshake (authPacket, authRespPacket, ..)
  wire,        \* per side: bytes written by the peer and not yet read
  sec,         \* per side: the secrets returned by the handshake
  err,         \* per side: the error returned by the last failed call
  rw,          \* per side: the rlpxFrameRW
  sent,        \* per side: messages accepted by WriteMsg, with their frames
  rcvd,        \* per side: messages returned by ReadMsg
  lastW,       \* per side: outcome of the last WriteMsg
  lastR,       \* per side: outcome of the last ReadMsg
  tampered,    \* per side: changes made to the bytes in flight towards it
  mu,          \* per side: the holders of t.rmu and t.wmu
  gor,         \* per side: the goroutines calling ReadMsg, WriteMsg and close
  call,        \* the last call into the crypto package, with its arguments and result
  lru,         \* the lru of minerva.go, with the result of its last get
  ph,          \* per side: the doProtoHandshake call, its writer goroutine and
               \* the channel werr between them
  deadline     \* per side: the read and the write deadline of the connection fd

vars == <<CryptoType, cfg, pc, h, loc, wire, sec, err, rw, sent, rcvd, lastW, lastR, tampered,
          mu, gor, ph, deadline, call, lru>>
hsVars == <<cfg, pc, h, loc, sec, mu, gor, ph, deadline, call, lru>>
frVars == <<rw, sent, rcvd, lastW, lastR, tampered, mu, gor, ph, deadline, call, lru>>

NumGoroutines == 2
Goroutines == 1..NumGoroutines

\* a transport made without a deadline on its connection
newRLPX_NoDeadline == [rd |-> "none", wd |-> "none"]

\* newRLPX: fd.SetDeadline sets the read and the write deadline of the
\* connection.  A deadline is "armed" while its time lies ahead and
\* "expired" once the time has passed.
newRLPX == [rd |-> "armed", wd |-> "armed"]

\* no call into the crypto package yet
NoCall == [fn |-> "none", hash |-> <<>>, sig |-> <<>>, key |-> <<"nil", 0>>, res |-> <<>>]
\* the lru before newlru: no cache, no future item, no get returned
NoLRU == [cache |-> <<>>, max |-> 0, future |-> <<0, 0, 0>>, futureItem |-> <<>>,
          built |-> 0, epoch |-> <<0, 0, 0>>, item |-> <<>>, ret |-> <<>>, gets |-> 0]

\* a transport on which no call is in progress: both mutexes free,
\* doProtoHandshake not called, the deadlines those of newRLPX
NoCalls ==
  /\ call = NoCall
  /\ lru = NoLRU
  /\ deadline = [s \in {"I", "R"} |-> newRLPX]
  /\ mu = [s \in {"I", "R"} |-> [rmu |-> 0, wmu |-> 0]]
  /\ gor = [s \in {"I", "R"} |-> [g \in Goroutines |-> [op |-> "none", mark |-> 0]]]
  /\ ph = [s \in {"I", "R"} |->
            [pc |-> "idle", w |-> "none", wres |-> "none", werr |-> <<>>, our |-> 0,
             rerr |-> "none", their |-> 0, ret |-> "none"]]
Sides == {"I", "R"}
Peer(s) == IF s = "I" THEN "R" ELSE "I"

(***************************************************************************)
(* The crypto suite (src/crypto).                                          *)
(***************************************************************************)
CryptoTypes == {"P256", "SM2", "S256"}

\* keys: a private key is a name, its public key the term <<"pub", name>>
NoPriv == <<"nil", 0>>
Pub(k) == <<"pub", k>>
NoKey == Pub(NoPriv)
StaticI == <<"a", 0>>
StaticR == <<"b", 0>>
StaticX == <<"x", 0>>
EphKeys(s) == {<<s, i>> : i \in 1..NumEphemeral}
Nonces(s) == {Blob(<<"nonce", s, i>>, shaLen) : i \in 1..NumNonces}

RECURSIVE CatAll(_)
CatAll(ss) == IF ss = <<>> THEN <<>> ELSE Cat(ss[1], CatAll(Tail(ss)))

\* hash.Hash: the state is the bytes absorbed so far
HashNew == <<>>
HashWrite(st, b) == Cat(st, b)
HashSum(alg, st) == Blob(<<"H", alg, st>>, 32)

Keccak256(data) ==
  IF CryptoType = "P256" THEN HashSum("keccak256", CatAll(data))
  ELSE IF CryptoType = "SM2" THEN HashSum("sm3", CatAll(data))
  ELSE <<>>

xor(one, other) ==
  IF one = <<>> THEN <<>>
  ELSE <<[x |-> <<"xor", one, other>>, o |-> Z, n |-> BLen(one)]>>

GenerateShared(pri, pub) == Blob(<<"dh", {pri, pub[2]}>>, sskLen + sskLen)

\* elliptic.Marshal / FromECDSAPub: 0x04 || X || Y
FromECDSAPub(pub) == Cat(Const(4, 1), Blob(<<"xy", pub[2]>>, pubLen))
UnmarshalPubkey(b) ==
  IF /\ Len(b) = 2
     /\ b[1] = Const(4, 1)[1]
     /\ b[2].x[1] = "xy" /\ b[2].o = Z /\ b[2].n = Big(pubLen)
  THEN Pub(b[2].x[2])
  ELSE NoKey
CompressPubkey(pub) == Blob(<<"cxy", pub[2]>>, 33)
DecompressPubkey(b) ==
  IF Len(b) = 1 /\ b[1].x[1] = "cxy" /\ b[1].o = Z /\ b[1].n = Big(33)
  THEN Pub(b[1].x[2])
  ELSE NoKey

\* the 65-byte [R || S || V] of an ideal signature scheme, and key recovery
RawSign(digest, prv) == Blob(<<"sig", prv, digest>>, 65)
RecoverPubkey(digest, rsv) ==
  IF Len(rsv) = 1 /\ rsv[1].x[1] = "sig" /\ rsv[1].o = Z /\ rsv[1].n = Big(65)
  THEN IF rsv[1].x[3] = digest THEN Pub(rsv[1].x[2]) ELSE Pub(<<"garbage", 0>>)
  ELSE NoKey

Sign(digestHash, prv) ==
  IF CryptoType \in {"P256", "SM2"}
  THEN Cat(RawSign(digestHash, prv), CompressPubkey(Pub(prv)))
  ELSE RawSign(digestHash, prv)

Ecrecover(hash, sig) ==
  IF CryptoType = "P256" THEN RecoverPubkey(hash, TakeB(sig, Big(65)))
  ELSE IF CryptoType = "SM2" THEN DecompressPubkey(DropB(sig, Big(65)))
  ELSE RecoverPubkey(hash, sig)

SigToPub(hash, sig) ==
  IF CryptoType \in {"P256", "SM2"} THEN DecompressPubkey(DropB(sig, Big(65)))
  ELSE Ecrecover(hash, sig)

\* asymmetric encryption of a message to a public key
Encrypt(pub, m, k) == Blob(<<"ecies", pub, m>>, k)
\* decryption that succeeds with any private key
CanDecrypt_AnyKey(pri, c) ==
  Len(c) = 1 /\ c[1].x[1] = "ecies" /\ c[1].o = Z

CanDecrypt(pri, c) ==
  Len(c) = 1 /\ c[1].x[1] = "ecies" /\ c[1].o = Z /\ c[1].x[2] = Pub(pri)
Decrypt(pri, c) == c[1].x[3]

(***************************************************************************)
(* Certificates (external collaborator): a certificate is a blob that      *)
(* names the key it binds and whether the trusted list accepts it.         *)
(***************************************************************************)
NoCert == <<>>
MkCert(key, valid, k) == Blob(<<"cert", key, valid, k>>, k)
IsWholeCert(b) ==
  Len(b) = 1 /\ b[1].x[1] = "cert" /\ b[1].o = Z /\ b[1].n = Big(b[1].x[4])
VerifyCert(b) == IsWholeCert(b) /\ b[1].x[3]
FromCertBytesToPubKey(b) == IF IsWholeCert(b) THEN Pub(b[1].x[2]) ELSE NoKey
CertChoices(key) ==
  {NoCert, MkCert(key, TRUE, 3), MkCert(key, TRUE, 4), MkCert(StaticX, TRUE, 3),
   MkCert(key, FALSE, 3), MkCert(key, TRUE, 65536 + 3)}
IntOf(a) == a[1] * Limb + a[2]
CertLen(c) == IntOf(BLen(c.cert))

(***************************************************************************)
(* The encryption handshake (src/p2p/rlpx.go).                             *)
(***************************************************************************)
NewEncHandshake ==
  [CertSize |-> 0, initiator |-> FALSE, remote |-> NoKey,
   initNonce |-> <<>>, respNonce |-> <<>>,
   randomPrivKey |-> NoPriv, remoteRandomPub |-> NoKey]
NoSecrets ==
  [ok |-> FALSE, Remote |-> NoKey, AES |-> <<>>, MAC |-> <<>>,
   EgressMAC |-> <<>>, IngressMAC |-> <<>>]
\* the locals of a handshake call, and the arguments of its conn.Write calls
\* what a node keeps of an earlier connection: its handshake and secrets
NoPast == [h |-> NewEncHandshake, sec |-> NoSecrets]
NoLoc ==
  [authPacket |-> <<>>, authRespPacket |-> <<>>, peerCertSize |-> 0, buf |-> <<>>,
   written |-> <<>>]

exportPubkey(pub) == DropB(FromECDSAPub(pub), Big(1))
importPublicKey(pubKey) ==
  IF BLen(pubKey) = Big(64) THEN UnmarshalPubkey(Cat(Const(4, 1), pubKey))
  ELSE IF BLen(pubKey) = Big(65) THEN UnmarshalPubkey(pubKey)
  ELSE NoKey

staticSharedSecret(hh, prv) == GenerateShared(prv, hh.remote)

\* encHandshake.secrets deriving the keys from the remote static key alone
secrets_StaticOnly(hh, auth, authResp) ==
  LET aesSecret == Keccak256(<<FromECDSAPub(hh.remote)>>)
      macSecret == Keccak256(<<aesSecret>>)
      mac1 == HashWrite(HashWrite(HashNew, xor(macSecret, hh.respNonce)), auth)
      mac2 == HashWrite(HashWrite(HashNew, xor(macSecret, hh.initNonce)), authResp)
  IN IF hh.remoteRandomPub = NoKey \/ hh.randomPrivKey = NoPriv
     THEN NoSecrets
     ELSE [ok |-> TRUE, Remote |-> hh.remote, AES |-> aesSecret, MAC |-> macSecret,
           EgressMAC |-> IF hh.initiator THEN mac1 ELSE mac2,
           IngressMAC |-> IF hh.initiator THEN mac2 ELSE mac1]

\* encHandshake.secrets with the MAC states assigned without regard to the role
secrets_NoRoleSwap(hh, auth, authResp) ==
  LET ecdheSecret == GenerateShared(hh.randomPrivKey, hh.remoteRandomPub)
      sharedSecret == Keccak256(<<ecdheSecret, Keccak256(<<hh.respNonce, hh.initNonce>>)>>)
      aesSecret == Keccak256(<<ecdheSecret, sharedSecret>>)
      macSecret == Keccak256(<<ecdheSecret, aesSecret>>)
      mac1 == HashWrite(HashWrite(HashNew, xor(macSecret, hh.respNonce)), auth)
      mac2 == HashWrite(HashWrite(HashNew, xor(macSecret, hh.initNonce)), authResp)
  IN IF hh.remoteRandomPub = NoKey \/ hh.randomPrivKey = NoPriv
     THEN NoSecrets
     ELSE [ok |-> TRUE, Remote |-> hh.remote, AES |-> aesSecret, MAC |-> macSecret,
           EgressMAC |-> mac1, IngressMAC |-> mac2]

\* encHandshake.secrets with the two nonces hashed in the other order
secrets_NonceOrder(hh, auth, authResp) ==
  LET ecdheSecret == GenerateShared(hh.randomPrivKey, hh.remoteRandomPub)
      sharedSecret == Keccak256(<<ecdheSecret, Keccak256(<<hh.initNonce, hh.respNonce>>)>>)
      aesSecret == Keccak256(<<ecdheSecret, sharedSecret>>)
      macSecret == Keccak256(<<ecdheSecret, aesSecret>>)
      mac1 == HashWrite(HashWrite(HashNew, xor(macSecret, hh.respNonce)), auth)
      mac2 == HashWrite(HashWrite(HashNew, xor(macSecret, hh.initNonce)), authResp)
  IN IF hh.remoteRandomPub = NoKey \/ hh.randomPrivKey = NoPriv
     THEN NoSecrets
     ELSE [ok |-> TRUE, Remote |-> hh.remote, AES |-> aesSecret, MAC |-> macSecret,
           EgressMAC |-> IF hh.initiator THEN mac1 ELSE mac2,
           IngressMAC |-> IF hh.initiator THEN mac2 ELSE mac1]

\* encHandshake.secrets
secrets(hh, auth, authResp) ==
  LET ecdheSecret == GenerateShared(hh.randomPrivKey, hh.remoteRandomPub)
      sharedSecret == Keccak256(<<ecdheSecret, Keccak256(<<hh.respNonce, hh.initNonce>>)>>)
      aesSecret == Keccak256(<<ecdheSecret, sharedSecret>>)
      macSecret == Keccak256(<<ecdheSecret, aesSecret>>)
      mac1 == HashWrite(HashWrite(HashNew, xor(macSecret, hh.respNonce)), auth)
      mac2 == HashWrite(HashWrite(HashNew, xor(macSecret, hh.initNonce)), authResp)
  IN IF hh.remoteRandomPub = NoKey \/ hh.randomPrivKey = NoPriv
     THEN NoSecrets
     ELSE [ok |-> TRUE, Remote |-> hh.remote, AES |-> aesSecret, MAC |-> macSecret,
           EgressMAC |-> IF hh.initiator THEN mac1 ELSE mac2,
           IngressMAC |-> IF hh.initiator THEN mac2 ELSE mac1]

\* encHandshake.makeAuthMsg: the handshake after the call, and the message
makeAuthMsg(hh, prv, nonce, key, version) ==
  LET h1 == [hh EXCEPT !.initNonce = nonce, !.randomPrivKey = key]
      token == staticSharedSecret(h1, prv)
      signed == xor(token, h1.initNonce)
      signature == Sign(signed, h1.randomPrivKey)
  IN [h |-> h1,
      msg |-> [Signature |-> Cat(signature, Const(0, sigLen - IntOf(BLen(signature)))),
               InitiatorPubkey |-> DropB(FromECDSAPub(Pub(prv)), Big(1)),
               Nonce |-> h1.initNonce,
               Version |-> version,
               CertSize |-> h1.CertSize]]

\* authMsgV4.sealPlain, authRespV4.sealPlain
sealPlain(msg, hh, k) == Encrypt(hh.remote, msg, k)

\* encHandshake.handleAuthResp without the version check
handleAuthResp_NoVersionCheck(hh, msg, version) ==
  LET pub == importPublicKey(msg.RandomPubkey)
      h1 == [hh EXCEPT !.respNonce = msg.Nonce, !.remoteRandomPub = pub]
  IN [h |-> h1, err |-> IF pub = NoKey THEN "key" ELSE "none"]

\* encHandshake.handleAuthResp
handleAuthResp(hh, msg, version) ==
  LET pub == importPublicKey(msg.RandomPubkey)
      h1 == [hh EXCEPT !.respNonce = msg.Nonce, !.remoteRandomPub = pub]
  IN [h |-> h1,
      err |-> IF msg.Version # version THEN "version"
              ELSE IF pub = NoKey THEN "key" ELSE "none"]

\* encHandshake.handleAuthMsg taking the remote static key from the signature
handleAuthMsg_RemoteFromSig(hh, msg, prv, key) ==
  LET rpub == importPublicKey(msg.InitiatorPubkey)
      h1 == [hh EXCEPT !.initNonce = msg.Nonce, !.remote = rpub,
                       !.randomPrivKey = IF @ = NoPriv THEN key ELSE @]
      token == staticSharedSecret(h1, prv)
      signedMsg == xor(token, h1.initNonce)
      rrp == SigToPub(signedMsg, msg.Signature)
  IN IF rpub = NoKey THEN [h |-> hh, err |-> "key"]
     ELSE IF rrp = NoKey THEN [h |-> h1, err |-> "sig"]
     ELSE [h |-> [h1 EXCEPT !.remoteRandomPub = rrp, !.remote = rrp], err |-> "none"]

\* encHandshake.handleAuthMsg
handleAuthMsg(hh, msg, prv, key) ==
  LET rpub == importPublicKey(msg.InitiatorPubkey)
      h1 == [hh EXCEPT !.initNonce = msg.Nonce, !.remote = rpub,
                       !.randomPrivKey = IF @ = NoPriv THEN key ELSE @]
      token == staticSharedSecret(h1, prv)
      signedMsg == xor(token, h1.initNonce)
      rrp == SigToPub(signedMsg, msg.Signature)
  IN IF rpub = NoKey THEN [h |-> hh, err |-> "key"]
     ELSE IF rrp = NoKey THEN [h |-> h1, err |-> "sig"]
     ELSE [h |-> [h1 EXCEPT !.remoteRandomPub = rrp], err |-> "none"]

\* encHandshake.makeAuthResp
makeAuthResp(hh, nonce, version) ==
  LET h1 == [hh EXCEPT !.respNonce = nonce]
  IN [h |-> h1,
      msg |-> [RandomPubkey |-> exportPubkey(Pub(h1.randomPrivKey)),
               Nonce |-> h1.respNonce,
               Version |-> version,
               CertSize |-> h1.CertSize]]

\* the certificate checks without the comparison with the handshake's key
CheckCert_NoIdentity(buf, remote) ==
  IF ~VerifyCert(buf) THEN "certInvalid"
  ELSE IF FromCertBytesToPubKey(buf) = NoKey THEN "certKey"
  ELSE "none"

\* the certificate checks shared by both roles: verify, extract, compare
CheckCert(buf, remote) ==
  IF ~VerifyCert(buf) THEN "certInvalid"
  ELSE IF FromCertBytesToPubKey(buf) = NoKey THEN "certKey"
  ELSE IF FromCertBytesToPubKey(buf) # remote THEN "certIdentity"
  ELSE "none"

\* the cert-size checks without the test for an advertised size of 0
CertSizeCheck_NoMissing(c, size) ==
  IF c.cert = NoCert THEN "none"
  ELSE IF Uint16(CertLen(c)) # size THEN "certSize"
  ELSE "none"

\* the checks both roles make of the peer's advertised cert-size when a local
\* certificate is configured
CertSizeCheck(c, size) ==
  IF c.cert = NoCert THEN "none"
  ELSE IF size = 0 THEN "certMissing"
  ELSE IF Uint16(CertLen(c)) # size THEN "certSize"
  ELSE "none"

NoFrameRW ==
  [live |-> FALSE, enc |-> Z, dec |-> Z, aes |-> <<>>, macCipher |-> <<>>,
   egressMAC |-> <<>>, ingressMAC |-> <<>>, snappy |-> FALSE]
\* newRLPXFrameRW
newRLPXFrameRW(sc) ==
  [live |-> TRUE, enc |-> Z, dec |-> Z, aes |-> sc.AES, macCipher |-> sc.MAC,
   egressMAC |-> sc.EgressMAC, ingressMAC |-> sc.IngressMAC, snappy |-> FALSE]

\* aes.NewCipher accepts keys of 16, 24 and 32 bytes; newRLPXFrameRW panics
\* when it rejects the MAC secret or the AES secret
ValidKey(k) == BLen(k) \in {Big(16), Big(24), Big(32)}
newRLPXFrameRWPanics(sc) == ~ValidKey(sc.MAC) \/ ~ValidKey(sc.AES)

frLog == <<sent, rcvd, lastW, lastR, tampered, mu, gor, ph, deadline, call, lru>>

\* a decrypted plaintext is either a message (a record of its fields) or
\* bytes that are not the encoding of one ([junk |-> k], k naming the
\* bytes); on the latter rlp.Decode fails and decodePlain panics
decodePlainPanics(dec) == "Nonce" \notin DOMAIN dec

\* a panic leaves the handshake without a return value
Panic(s, e) ==
  /\ pc' = [pc EXCEPT ![s] = "panicked"]
  /\ err' = [err EXCEPT ![s] = e]
  /\ sec' = [sec EXCEPT ![s] = NoSecrets]
  /\ UNCHANGED rw

\* an error return of doEncHandshake that creates the frame codec all the same
Fail_SetsRW(s, e) ==
  /\ pc' = [pc EXCEPT ![s] = "failed"]
  /\ err' = [err EXCEPT ![s] = e]
  /\ sec' = [sec EXCEPT ![s] = NoSecrets]
  /\ rw' = [rw EXCEPT ![s] = newRLPXFrameRW(NoSecrets)]

\* the error return of the handshake and of doEncHandshake: t.rw is not set
Fail(s, e) ==
  /\ pc' = [pc EXCEPT ![s] = "failed"]
  /\ err' = [err EXCEPT ![s] = e]
  /\ sec' = [sec EXCEPT ![s] = NoSecrets]
  /\ UNCHANGED rw

\* the return of h.secrets, and doEncHandshake setting t.rw when it succeeded
Finish(s, hh, auth, authResp) ==
  LET sc == secrets(hh, auth, authResp)
  IN /\ sec' = [sec EXCEPT ![s] = sc]
     /\ IF ~sc.ok
        THEN /\ pc' = [pc EXCEPT ![s] = "failed"]
             /\ err' = [err EXCEPT ![s] = "key"]
             /\ UNCHANGED rw
        ELSE IF newRLPXFrameRWPanics(sc)
        THEN /\ pc' = [pc EXCEPT ![s] = "panicked"]
             /\ err' = [err EXCEPT ![s] = "panicKey"]
             /\ UNCHANGED rw
        ELSE /\ pc' = [pc EXCEPT ![s] = "done"]
             /\ err' = [err EXCEPT ![s] = "none"]
             /\ rw' = [rw EXCEPT ![s] = newRLPXFrameRW(sc)]

\* initiatorEncHandshake, up to and including the write of the auth packet
InitiatorStart ==
  /\ pc["I"] = "start"
  /\ \E nonce \in Nonces("I"), key \in EphKeys("I") :
       LET c == cfg["I"]
           h0 == [NewEncHandshake EXCEPT !.initiator = TRUE, !.remote = c.dial,
                                         !.CertSize = Uint16(CertLen(c))]
           m == makeAuthMsg(h0, c.prv, nonce, key, c.ver)
           authPacket == sealPlain(m.msg, m.h, encAuthMsgLen)
       IN /\ h' = [h EXCEPT !["I"] = m.h]
          /\ loc' = [loc EXCEPT !["I"].authPacket = authPacket,
                                !["I"].written = Append(@, authPacket)]
          /\ wire' = [wire EXCEPT !["R"] = Cat(@, authPacket)]
          /\ pc' = [pc EXCEPT !["I"] = "readResp"]
  /\ UNCHANGED <<CryptoType, cfg, sec, err, rw, frLog>>

\* initiatorEncHandshake that goes on to read the peer's certificate without
\* having written its own
InitiatorResp_ReadFirst ==
  /\ pc["I"] = "readResp"
  /\ BLe(Big(encAuthRespLen), BLen(wire["I"]))
  /\ LET c == cfg["I"]
         buf == TakeB(wire["I"], Big(encAuthRespLen))
         rest == DropB(wire["I"], Big(encAuthRespLen))
     IN IF ~CanDecrypt(c.prv, buf)
        THEN /\ Fail("I", "decrypt")
             /\ wire' = [wire EXCEPT !["I"] = rest]
             /\ UNCHANGED <<h, loc>>
        ELSE IF decodePlainPanics(Decrypt(c.prv, buf))
        THEN /\ Panic("I", "panicDecode")
             /\ wire' = [wire EXCEPT !["I"] = rest]
             /\ UNCHANGED <<h, loc>>
        ELSE LET msg == Decrypt(c.prv, buf)
                 r == handleAuthResp(h["I"], msg, c.ver)
                 ce == CertSizeCheck(c, msg.CertSize)
                 sendsCert == r.err = "none" /\ c.cert # NoCert /\ ce = "none"
                 l1 == [loc["I"] EXCEPT !.authRespPacket = buf,
                                        !.peerCertSize = msg.CertSize,
                                        !.written = IF sendsCert THEN Append(@, c.cert)
                                                    ELSE @]
             IN /\ h' = [h EXCEPT !["I"] = r.h]
                /\ loc' = [loc EXCEPT !["I"] = l1]
                /\ IF r.err # "none"
                   THEN Fail("I", r.err) /\ wire' = [wire EXCEPT !["I"] = rest]
                   ELSE IF ce # "none"
                   THEN Fail("I", ce) /\ wire' = [wire EXCEPT !["I"] = rest]
                   ELSE IF c.cert # NoCert
                   THEN /\ wire' = [wire EXCEPT !["I"] = rest]
                        /\ pc' = [pc EXCEPT !["I"] = "readCert"]
                        /\ UNCHANGED <<sec, err, rw>>
                   ELSE /\ Finish("I", r.h, l1.authPacket, l1.authRespPacket)
                        /\ wire' = [wire EXCEPT !["I"] = rest]
  /\ UNCHANGED <<CryptoType, cfg, frLog>>

\* initiatorEncHandshake, from the read of the auth response to the write of
\* the certificate (or to the end when no certificate is configured)
InitiatorResp ==
  /\ pc["I"] = "readResp"
  /\ BLe(Big(encAuthRespLen), BLen(wire["I"]))
  /\ LET c == cfg["I"]
         buf == TakeB(wire["I"], Big(encAuthRespLen))
         rest == DropB(wire["I"], Big(encAuthRespLen))
     IN IF ~CanDecrypt(c.prv, buf)
        THEN /\ Fail("I", "decrypt")
             /\ wire' = [wire EXCEPT !["I"] = rest]
             /\ UNCHANGED <<h, loc>>
        ELSE IF decodePlainPanics(Decrypt(c.prv, buf))
        THEN /\ Panic("I", "panicDecode")
             /\ wire' = [wire EXCEPT !["I"] = rest]
             /\ UNCHANGED <<h, loc>>
        ELSE LET msg == Decrypt(c.prv, buf)
                 r == handleAuthResp(h["I"], msg, c.ver)
                 ce == CertSizeCheck(c, msg.CertSize)
                 sendsCert == r.err = "none" /\ c.cert # NoCert /\ ce = "none"
                 l1 == [loc["I"] EXCEPT !.authRespPacket = buf,
                                        !.peerCertSize = msg.CertSize,
                                        !.written = IF sendsCert THEN Append(@, c.cert)
                                                    ELSE @]
             IN /\ h' = [h EXCEPT !["I"] = r.h]
                /\ loc' = [loc EXCEPT !["I"] = l1]
                /\ IF r.err # "none"
                   THEN Fail("I", r.err) /\ wire' = [wire EXCEPT !["I"] = rest]
                   ELSE IF ce # "none"
                   THEN Fail("I", ce) /\ wire' = [wire EXCEPT !["I"] = rest]
                   ELSE IF c.cert # NoCert
                   THEN /\ wire' = [wire EXCEPT !["I"] = rest,
                                                !["R"] = Cat(@, c.cert)]
                        /\ pc' = [pc EXCEPT !["I"] = "readCert"]
                        /\ UNCHANGED <<sec, err, rw>>
                   ELSE /\ Finish("I", r.h, l1.authPacket, l1.authRespPacket)
                        /\ wire' = [wire EXCEPT !["I"] = rest]
  /\ UNCHANGED <<CryptoType, cfg, frLog>>

\* initiatorEncHandshake, from the read of the peer's certificate to the end
InitiatorCert ==
  /\ pc["I"] = "readCert"
  /\ BLe(Big(loc["I"].peerCertSize), BLen(wire["I"]))
  /\ LET n == Big(loc["I"].peerCertSize)
         buf == TakeB(wire["I"], n)
         e == CheckCert(buf, h["I"].remote)
     IN /\ wire' = [wire EXCEPT !["I"] = DropB(@, n)]
        /\ loc' = [loc EXCEPT !["I"].buf = buf]
        /\ IF e # "none" THEN Fail("I", e)
           ELSE Finish("I", h["I"], loc["I"].authPacket, loc["I"].authRespPacket)
  /\ UNCHANGED <<CryptoType, cfg, h, frLog>>

\* receiverEncHandshake writing the auth response before the cert-size checks
ReceiverStart_RespFirst ==
  /\ pc["R"] = "start"
  /\ BLe(Big(encAuthMsgLen), BLen(wire["R"]))
  /\ \E nonce \in Nonces("R"), key \in EphKeys("R") :
       LET c == cfg["R"]
           buf == TakeB(wire["R"], Big(encAuthMsgLen))
           rest == DropB(wire["R"], Big(encAuthMsgLen))
       IN IF ~CanDecrypt(c.prv, buf)
          THEN /\ Fail("R", "decrypt")
               /\ wire' = [wire EXCEPT !["R"] = rest]
               /\ UNCHANGED <<h, loc>>
          ELSE IF decodePlainPanics(Decrypt(c.prv, buf))
          THEN /\ Panic("R", "panicDecode")
               /\ wire' = [wire EXCEPT !["R"] = rest]
               /\ UNCHANGED <<h, loc>>
          ELSE LET msg == Decrypt(c.prv, buf)
                   h0 == [NewEncHandshake EXCEPT !.CertSize = Uint16(CertLen(c))]
                   r == handleAuthMsg(h0, msg, c.prv, key)
                   hasCert == c.cert # NoCert
                   ce == CertSizeCheck(c, msg.CertSize)
                   a == makeAuthResp(r.h, nonce, c.ver)
                   authRespPacket == sealPlain(a.msg, a.h, encAuthRespLen)
                   l1 == [loc["R"] EXCEPT !.authPacket = buf,
                                          !.authRespPacket = authRespPacket,
                                          !.peerCertSize = msg.CertSize,
                                          !.written = Append(@, authRespPacket)]
               IN IF r.err # "none"
                  THEN /\ Fail("R", r.err)
                       /\ h' = [h EXCEPT !["R"] = r.h]
                       /\ wire' = [wire EXCEPT !["R"] = rest]
                       /\ UNCHANGED loc
                  ELSE IF ce # "none"
                  THEN /\ Fail("R", ce)
                       /\ h' = [h EXCEPT !["R"] = a.h]
                       /\ loc' = [loc EXCEPT !["R"] = l1]
                       /\ wire' = [wire EXCEPT !["R"] = rest,
                                               !["I"] = Cat(@, authRespPacket)]
                  ELSE /\ h' = [h EXCEPT !["R"] = a.h]
                       /\ loc' = [loc EXCEPT !["R"] = l1]
                       /\ wire' = [wire EXCEPT !["R"] = rest,
                                               !["I"] = Cat(@, authRespPacket)]
                       /\ IF msg.Version # c.ver THEN Fail("R", "version")
                          ELSE IF hasCert
                          THEN /\ pc' = [pc EXCEPT !["R"] = "readCert"]
                               /\ UNCHANGED <<sec, err, rw>>
                          ELSE Finish("R", a.h, buf, authRespPacket)
  /\ UNCHANGED <<CryptoType, cfg, frLog>>

\* receiverEncHandshake, from the read of the auth packet to the version check
ReceiverStart ==
  /\ pc["R"] = "start"
  /\ BLe(Big(encAuthMsgLen), BLen(wire["R"]))
  /\ \E nonce \in Nonces("R"), key \in EphKeys("R") :
       LET c == cfg["R"]
           buf == TakeB(wire["R"], Big(encAuthMsgLen))
           rest == DropB(wire["R"], Big(encAuthMsgLen))
       IN IF ~CanDecrypt(c.prv, buf)
          THEN /\ Fail("R", "decrypt")
               /\ wire' = [wire EXCEPT !["R"] = rest]
               /\ UNCHANGED <<h, loc>>
          ELSE IF decodePlainPanics(Decrypt(c.prv, buf))
          THEN /\ Panic("R", "panicDecode")
               /\ wire' = [wire EXCEPT !["R"] = rest]
               /\ UNCHANGED <<h, loc>>
          ELSE LET msg == Decrypt(c.prv, buf)
                   h0 == [NewEncHandshake EXCEPT !.CertSize = Uint16(CertLen(c))]
                   r == handleAuthMsg(h0, msg, c.prv, key)
                   hasCert == c.cert # NoCert
                   ce == CertSizeCheck(c, msg.CertSize)
                   a == makeAuthResp(r.h, nonce, c.ver)
                   authRespPacket == sealPlain(a.msg, a.h, encAuthRespLen)
                   l1 == [loc["R"] EXCEPT !.authPacket = buf,
                                          !.authRespPacket = authRespPacket,
                                          !.peerCertSize = msg.CertSize,
                                          !.written = Append(@, authRespPacket)]
               IN IF r.err # "none"
                  THEN /\ Fail("R", r.err)
                       /\ h' = [h EXCEPT !["R"] = r.h]
                       /\ wire' = [wire EXCEPT !["R"] = rest]
                       /\ UNCHANGED loc
                  ELSE IF ce # "none"
                  THEN /\ Fail("R", ce)
                       /\ h' = [h EXCEPT !["R"] = r.h]
                       /\ wire' = [wire EXCEPT !["R"] = rest]
                       /\ UNCHANGED loc
                  ELSE /\ h' = [h EXCEPT !["R"] = a.h]
                       /\ loc' = [loc EXCEPT !["R"] = l1]
                       /\ wire' = [wire EXCEPT !["R"] = rest,
                                               !["I"] = Cat(@, authRespPacket)]
                       /\ IF msg.Version # c.ver THEN Fail("R", "version")
                          ELSE IF hasCert
                          THEN /\ pc' = [pc EXCEPT !["R"] = "readCert"]
                               /\ UNCHANGED <<sec, err, rw>>
                          ELSE Finish("R", a.h, buf, authRespPacket)
  /\ UNCHANGED <<CryptoType, cfg, frLog>>

\* receiverEncHandshake writing its certificate before it checks the peer's
ReceiverCert_WriteFirst ==
  /\ pc["R"] = "readCert"
  /\ BLe(Big(loc["R"].peerCertSize), BLen(wire["R"]))
  /\ LET n == Big(loc["R"].peerCertSize)
         buf == TakeB(wire["R"], n)
         e == CheckCert(buf, h["R"].remote)
     IN IF e # "none"
        THEN /\ Fail("R", e)
             /\ wire' = [wire EXCEPT !["R"] = DropB(@, n),
                                     !["I"] = Cat(@, cfg["R"].cert)]
             /\ loc' = [loc EXCEPT !["R"].buf = buf,
                                   !["R"].written = Append(@, cfg["R"].cert)]
        ELSE /\ wire' = [wire EXCEPT !["R"] = DropB(@, n),
                                     !["I"] = Cat(@, cfg["R"].cert)]
             /\ loc' = [loc EXCEPT !["R"].buf = buf,
                                   !["R"].written = Append(@, cfg["R"].cert)]
             /\ Finish("R", h["R"], loc["R"].authPacket, loc["R"].authRespPacket)
  /\ UNCHANGED <<CryptoType, cfg, h, frLog>>

\* receiverEncHandshake, from the read of the peer's certificate to the end
ReceiverCert ==
  /\ pc["R"] = "readCert"
  /\ BLe(Big(loc["R"].peerCertSize), BLen(wire["R"]))
  /\ LET n == Big(loc["R"].peerCertSize)
         buf == TakeB(wire["R"], n)
         e == CheckCert(buf, h["R"].remote)
     IN IF e # "none"
        THEN /\ Fail("R", e)
             /\ wire' = [wire EXCEPT !["R"] = DropB(@, n)]
             /\ loc' = [loc EXCEPT !["R"].buf = buf]
        ELSE /\ wire' = [wire EXCEPT !["R"] = DropB(@, n),
                                     !["I"] = Cat(@, cfg["R"].cert)]
             /\ loc' = [loc EXCEPT !["R"].buf = buf,
                                   !["R"].written = Append(@, cfg["R"].cert)]
             /\ Finish("R", h["R"], loc["R"].authPacket, loc["R"].authRespPacket)
  /\ UNCHANGED <<CryptoType, cfg, h, frLog>>

\* a blocked read returns an error once the peer has given up and closed
ReadEOF(s) ==
  /\ pc[s] \in {"start", "readResp", "readCert"}
  /\ ~(s = "I" /\ pc[s] = "start")
  /\ pc[Peer(s)] = "failed"
  /\ LET need == IF pc[s] = "readCert" THEN Big(loc[s].peerCertSize)
                 ELSE IF s = "I" THEN Big(encAuthRespLen) ELSE Big(encAuthMsgLen)
     IN BLt(BLen(wire[s]), need)
  /\ Fail(s, "eof")
  /\ UNCHANGED <<CryptoType, cfg, h, loc, wire, frLog>>

NoOutcome == [called |-> FALSE]
NoTamper == [flips |-> 0, moved |-> FALSE]

HSInit ==
  /\ CryptoType \in CryptoTypes
  /\ cfg \in {f \in [Sides -> [prv : {StaticI, StaticR}, dial : {Pub(StaticR), Pub(StaticX), NoKey},
                               ver : {TaiRLPXVersion, TaiRLPXVersion - 1},
                               cert : CertChoices(StaticI) \cup CertChoices(StaticR),
                               past : {NoPast}]] :
                /\ f["I"].prv = StaticI /\ f["I"].dial # NoKey
                /\ f["I"].cert \in CertChoices(StaticI)
                /\ f["R"].prv = StaticR /\ f["R"].dial = NoKey
                /\ f["R"].cert \in CertChoices(StaticR)}
  /\ pc = [s \in Sides |-> "start"]
  /\ h = [s \in Sides |-> NewEncHandshake]
  /\ loc = [s \in Sides |-> NoLoc]
  /\ wire = [s \in Sides |-> <<>>]
  /\ sec = [s \in Sides |-> NoSecrets]
  /\ err = [s \in Sides |-> "none"]
  /\ rw = [s \in Sides |-> NoFrameRW]
  /\ sent = [s \in Sides |-> <<>>]
  /\ rcvd = [s \in Sides |-> <<>>]
  /\ lastW = [s \in Sides |-> NoOutcome]
  /\ lastR = [s \in Sides |-> NoOutcome]
  /\ tampered = [s \in Sides |-> NoTamper]
  /\ NoCalls

HSNext ==
  \/ InitiatorStart
  \/ InitiatorResp
  \/ InitiatorCert
  \/ ReceiverStart
  \/ ReceiverCert
  \/ \E s \in Sides : ReadEOF(s)

SpecHS == HSInit /\ [][HSNext]_vars

(***************************************************************************)
(* RLP encoding of the message code and snappy block format (libraries).   *)
(***************************************************************************)
\* rlp.EncodeToBytes of a uint64 below 2^16
EncodeCode(c) ==
  IF c = 0 THEN Bytes(<<128>>)
  ELSE IF c < 128 THEN Bytes(<<c>>)
  ELSE IF c < 256 THEN Bytes(<<129, c>>)
  ELSE Bytes(<<130, c \div 256, c % 256>>)
\* rlp.Decode of a uint64 from the front of a reader
DecodeCode(b) ==
  LET b0 == ByteAt(b, 0)
      b1 == ByteAt(b, 1)
      b2 == ByteAt(b, 2)
      bad == [ok |-> FALSE, code |-> 0, rest |-> b]
  IN IF b = <<>> \/ b0 < 0 THEN bad
     ELSE IF b0 < 128 THEN [ok |-> TRUE, code |-> b0, rest |-> DropB(b, Big(1))]
     ELSE IF b0 = 128 THEN [ok |-> TRUE, code |-> 0, rest |-> DropB(b, Big(1))]
     ELSE IF b0 = 129
     THEN IF BLt(BLen(b), Big(2)) \/ b1 < 128 THEN bad
          ELSE [ok |-> TRUE, code |-> b1, rest |-> DropB(b, Big(2))]
     ELSE IF b0 = 130
     THEN IF BLt(BLen(b), Big(3)) \/ b1 <= 0 \/ b2 < 0 THEN bad
          ELSE [ok |-> TRUE, code |-> b1 * 256 + b2, rest |-> DropB(b, Big(3))]
     ELSE bad

\* binary.PutUvarint of a length below 2^28
Uvarint(k) ==
  IF k < 128 THEN <<k>>
  ELSE IF k < 16384 THEN <<128 + (k % 128), k \div 128>>
  ELSE IF k < 2097152 THEN <<128 + (k % 128), 128 + ((k \div 128) % 128), k \div 16384>>
  ELSE <<128 + (k % 128), 128 + ((k \div 128) % 128), 128 + ((k \div 16384) % 128), k \div 2097152>>
\* the tag of a literal element of k >= 1 bytes
LiteralTag(k) ==
  LET m == k - 1
  IN IF m < 60 THEN <<m * 4>>
     ELSE IF m < 256 THEN <<240, m>>
     ELSE IF m < 65536 THEN <<244, m % 256, m \div 256>>
     ELSE <<248, m % 256, (m \div 256) % 256, m \div 65536>>
\* snappy.Encode of a block the encoder finds no repeat in (any block below
\* 17 bytes, and opaque data): the length, then one literal
SnappyEncode(p) ==
  IF p = <<>> THEN Bytes(<<0>>)
  ELSE LET k == IntOf(BLen(p))
       IN Cat(Cat(Bytes(Uvarint(k)), Bytes(LiteralTag(k))), p)
\* snappy.DecodedLen: the uvarint at the front of the block
SnappyDecodedLen(b) ==
  LET b0 == ByteAt(b, 0)
      b1 == ByteAt(b, 1)
      b2 == ByteAt(b, 2)
      b3 == ByteAt(b, 3)
      bad == [ok |-> FALSE, n |-> 0, hdr |-> 0]
  IN IF b0 < 0 THEN bad
     ELSE IF b0 < 128 THEN [ok |-> TRUE, n |-> b0, hdr |-> 1]
     ELSE IF b1 < 0 THEN bad
     ELSE IF b1 < 128 THEN [ok |-> TRUE, n |-> (b0 - 128) + 128 * b1, hdr |-> 2]
     ELSE IF b2 < 0 THEN bad
     ELSE IF b2 < 128
     THEN [ok |-> TRUE, n |-> (b0 - 128) + 128 * (b1 - 128) + 16384 * b2, hdr |-> 3]
     ELSE IF b3 < 0 \/ b3 >= 128 THEN bad
     ELSE [ok |-> TRUE, hdr |-> 4,
           n |-> (b0 - 128) + 128 * (b1 - 128) + 16384 * (b2 - 128) + 2097152 * b3]
\* snappy.Decode of a block that holds one literal
SnappyDecode(b) ==
  LET d == SnappyDecodedLen(b)
      body == DropB(b, Big(d.hdr))
      t == ByteAt(body, 0)
      m == IF t < 0 \/ t % 4 # 0 THEN 0 - 1
           ELSE IF t < 240 THEN t \div 4
           ELSE IF t = 240 THEN ByteAt(body, 1)
           ELSE IF t = 244 THEN ByteAt(body, 1) + 256 * ByteAt(body, 2)
           ELSE IF t = 248
           THEN ByteAt(body, 1) + 256 * ByteAt(body, 2) + 65536 * ByteAt(body, 3)
           ELSE 0 - 1
      taglen == IF t < 240 THEN 1 ELSE IF t = 240 THEN 2 ELSE IF t = 244 THEN 3 ELSE 4
      data == DropB(body, Big(taglen))
      bad == [ok |-> FALSE, data |-> <<>>]
  IN IF ~d.ok THEN bad
     ELSE IF d.n = 0 THEN (IF body = <<>> THEN [ok |-> TRUE, data |-> <<>>] ELSE bad)
     ELSE IF m < 0 \/ m + 1 # d.n \/ BLen(data) # Big(d.n) THEN bad
     ELSE [ok |-> TRUE, data |-> data]

(***************************************************************************)
(* The frame codec (src/p2p/rlpx.go, rlpxFrameRW).                         *)
(***************************************************************************)
zeroHeader == <<194, 128, 128>>

\* cipher.Stream.XORKeyStream of AES-CTR with key k at stream position pos.
\* The ciphertext of the bytes x[o..] made at position pos is the source
\* <<"ct", k, x, a, b>> read from offset pos, where (a, b) is (o, pos)
\* shifted down until one of them is 0; ciphertext made with the same key
\* and met at the position it was made at becomes the plaintext again.
XorRun(k, pos, r) ==
  IF r.x[1] = "ct" /\ r.x[2] = k /\ r.o = pos
  THEN [x |-> r.x[3], n |-> r.n,
        o |-> IF r.x[3][1] = "c" THEN Z ELSE BAdd(BSub(r.o, r.x[5]), r.x[4])]
  ELSE IF IsConst(r) THEN [x |-> <<"ct", k, r.x, Z, Z>>, o |-> pos, n |-> r.n]
  ELSE [x |-> <<"ct", k, r.x, BSub(r.o, BMin(r.o, pos)), BSub(pos, BMin(r.o, pos))>>,
        o |-> pos, n |-> r.n]
RECURSIVE XORKeyStream(_, _, _)
XORKeyStream(k, pos, s) ==
  IF s = <<>> THEN <<>>
  ELSE Cat(<<XorRun(k, pos, s[1])>>, XORKeyStream(k, BAdd(pos, s[1].n), Tail(s)))

\* cipher.Block.Encrypt of one 16-byte block
BlockEncrypt(k, src) == Blob(<<"aes", k, TakeB(src, Big(16))>>, 16)

\* putInt24, readInt24: the 24-bit big-endian length field
putInt24(v) == <<(v[2] \div 65536) % 256, (v[2] \div 256) % 256, v[2] % 256>>
readInt24(b) ==
  IF ByteAt(b, 0) < 0 \/ ByteAt(b, 1) < 0 \/ ByteAt(b, 2) < 0 THEN 0 - 1
  ELSE ByteAt(b, 2) + ByteAt(b, 1) * 256 + ByteAt(b, 0) * 65536

NoMsg == [Code |-> 0, Size |-> Z, Payload |-> <<>>]

\* the limit check of WriteMsg with >= in place of >
FrameTooLarge_OffByOne(fsize) == BLe(Big(maxUint24), fsize)

\* the limit check of WriteMsg: fsize > maxUint24
FrameTooLarge(fsize) == BLt(Big(maxUint24), fsize)

\* The block that updateMAC writes into a hash is a function of the state
\* of that hash.  Inside a hash state, the digest of the bytes that precede a
\* run is written SumOfPrefix, which keeps a state linear in what it absorbed.
SumOfPrefix == Blob(<<"H^", "keccak256">>, 32)
Relative(mac, b) ==
  IF b = TakeB(HashSum("keccak256", mac), BLen(b)) THEN TakeB(SumOfPrefix, BLen(b)) ELSE b

\* updateMAC without the XOR of the seed into the encrypted digest
updateMAC_NoSeed(mac, block, seed) ==
  LET aesbuf == BlockEncrypt(block, Relative(mac, HashSum("keccak256", mac)))
      mac1 == HashWrite(mac, aesbuf)
  IN [mac |-> mac1, sum |-> TakeB(HashSum("keccak256", mac1), Big(16))]

\* updateMAC: the hash after reseeding, and the first 16 bytes of its sum
updateMAC(mac, block, seed) ==
  LET aesbuf == xor(BlockEncrypt(block, Relative(mac, HashSum("keccak256", mac))),
                    Relative(mac, TakeB(seed, Big(16))))
      mac1 == HashWrite(mac, aesbuf)
  IN [mac |-> mac1, sum |-> TakeB(HashSum("keccak256", mac1), Big(16))]

\* WriteMsg with an egress MAC that does not absorb the encrypted padding
WriteMsg_PadNotHashed(f, msg) ==
  LET ptype == EncodeCode(msg.Code)
      tooLarge == f.snappy /\ BLt(Big(maxUint24), msg.Size)
      payload == IF f.snappy THEN SnappyEncode(msg.Payload) ELSE msg.Payload
      size == IF f.snappy THEN Uint32(BLen(payload)) ELSE msg.Size
      fsize == Uint32(BAdd(BLen(ptype), size))
      header == Cat(Cat(Bytes(putInt24(fsize)), Bytes(zeroHeader)), Const(0, 10))
      headct == XORKeyStream(f.aes, f.enc, header)
      enc1 == BAdd(f.enc, Big(16))
      u1 == updateMAC(f.egressMAC, f.macCipher, headct)
      headbuf == Cat(headct, u1.sum)
      ct1 == XORKeyStream(f.aes, enc1, ptype)
      enc2 == BAdd(enc1, BLen(ptype))
      ct2 == XORKeyStream(f.aes, enc2, payload)
      enc3 == BAdd(enc2, BLen(payload))
      padding == fsize[2] % 16
      pad == IF padding > 0 THEN Const(0, 16 - padding) ELSE <<>>
      ct3 == XORKeyStream(f.aes, enc3, pad)
      enc4 == BAdd(enc3, BLen(pad))
      mac2 == HashWrite(HashWrite(u1.mac, ct1), ct2)
      fmacseed == HashSum("keccak256", mac2)
      u2 == updateMAC(mac2, f.macCipher, fmacseed)
  IN IF tooLarge
     THEN [err |-> "plainTooLarge", rw |-> f, out |-> <<>>]
     ELSE IF FrameTooLarge(fsize)
     THEN [err |-> "overflowsUint24", rw |-> f, out |-> <<>>]
     ELSE [err |-> "none",
           out |-> CatAll(<<headbuf, ct1, ct2, ct3, u2.sum>>),
           rw |-> [f EXCEPT !.enc = enc4, !.egressMAC = u2.mac]]

\* WriteMsg padding a frame whose size is a multiple of 16 with 16 bytes
WriteMsg_AlwaysPads(f, msg) ==
  LET ptype == EncodeCode(msg.Code)
      tooLarge == f.snappy /\ BLt(Big(maxUint24), msg.Size)
      payload == IF f.snappy THEN SnappyEncode(msg.Payload) ELSE msg.Payload
      size == IF f.snappy THEN Uint32(BLen(payload)) ELSE msg.Size
      fsize == Uint32(BAdd(BLen(ptype), size))
      header == Cat(Cat(Bytes(putInt24(fsize)), Bytes(zeroHeader)), Const(0, 10))
      headct == XORKeyStream(f.aes, f.enc, header)
      enc1 == BAdd(f.enc, Big(16))
      u1 == updateMAC(f.egressMAC, f.macCipher, headct)
      headbuf == Cat(headct, u1.sum)
      ct1 == XORKeyStream(f.aes, enc1, ptype)
      enc2 == BAdd(enc1, BLen(ptype))
      ct2 == XORKeyStream(f.aes, enc2, payload)
      enc3 == BAdd(enc2, BLen(payload))
      padding == fsize[2] % 16
      pad == Const(0, 16 - padding)
      ct3 == XORKeyStream(f.aes, enc3, pad)
      enc4 == BAdd(enc3, BLen(pad))
      mac2 == HashWrite(HashWrite(HashWrite(u1.mac, ct1), ct2), ct3)
      fmacseed == HashSum("keccak256", mac2)
      u2 == updateMAC(mac2, f.macCipher, fmacseed)
  IN IF tooLarge
     THEN [err |-> "plainTooLarge", rw |-> f, out |-> <<>>]
     ELSE IF FrameTooLarge(fsize)
     THEN [err |-> "overflowsUint24", rw |-> f, out |-> <<>>]
     ELSE [err |-> "none",
           out |-> CatAll(<<headbuf, ct1, ct2, ct3, u2.sum>>),
           rw |-> [f EXCEPT !.enc = enc4, !.egressMAC = u2.mac]]

\* rlpxFrameRW.WriteMsg: the error, the codec after the call and the bytes
\* written to the connection
WriteMsg(f, msg) ==
  LET ptype == EncodeCode(msg.Code)
      tooLarge == f.snappy /\ BLt(Big(maxUint24), msg.Size)
      payload == IF f.snappy THEN SnappyEncode(msg.Payload) ELSE msg.Payload
      size == IF f.snappy THEN Uint32(BLen(payload)) ELSE msg.Size
      fsize == Uint32(BAdd(BLen(ptype), size))
      header == Cat(Cat(Bytes(putInt24(fsize)), Bytes(zeroHeader)), Const(0, 10))
      headct == XORKeyStream(f.aes, f.enc, header)
      enc1 == BAdd(f.enc, Big(16))
      u1 == updateMAC(f.egressMAC, f.macCipher, headct)
      headbuf == Cat(headct, u1.sum)
      ct1 == XORKeyStream(f.aes, enc1, ptype)
      enc2 == BAdd(enc1, BLen(ptype))
      ct2 == XORKeyStream(f.aes, enc2, payload)
      enc3 == BAdd(enc2, BLen(payload))
      padding == fsize[2] % 16
      pad == IF padding > 0 THEN Const(0, 16 - padding) ELSE <<>>
      ct3 == XORKeyStream(f.aes, enc3, pad)
      enc4 == BAdd(enc3, BLen(pad))
      mac2 == HashWrite(HashWrite(HashWrite(u1.mac, ct1), ct2), ct3)
      fmacseed == HashSum("keccak256", mac2)
      u2 == updateMAC(mac2, f.macCipher, fmacseed)
  IN IF tooLarge
     THEN [err |-> "plainTooLarge", rw |-> f, out |-> <<>>]
     ELSE IF FrameTooLarge(fsize)
     THEN [err |-> "overflowsUint24", rw |-> f, out |-> <<>>]
     ELSE [err |-> "none",
           out |-> CatAll(<<headbuf, ct1, ct2, ct3, u2.sum>>),
           rw |-> [f EXCEPT !.enc = enc4, !.egressMAC = u2.mac]]

\* a MAC comparison whose result is ignored
hmacEqual_Ignored(mac1, mac2) == TRUE

\* hmac.Equal, as ReadMsg calls it on the computed and the received MAC
hmacEqual(mac1, mac2) == mac1 = mac2

\* A header or a frame content that is decrypted at another position of the
\* key stream than the one it was encrypted at comes out as bytes that depend
\* on the key.  GarbledSizes are the lengths the model lets such a header
\* hold: an empty frame, the frame sizes of the messages in TamperMsgs.
GarbledSizes == {0, 16, 19}
GarbledMsg(content) ==
  [Code |-> 0, Size |-> Uint32(BSub(BLen(content), Big(1))), Payload |-> DropB(content, Big(1))]

ReadWait(f) == [blocked |-> TRUE, err |-> "none", rw |-> f, taken |-> Z, msg |-> NoMsg]
ReadRet(e, g, k, m) == [blocked |-> FALSE, err |-> e, rw |-> g, taken |-> Big(k), msg |-> m]

\* readFrame decompressing the payload before it tests the decoded length
readFrame_DecodeFirst(f, f1, in, dec1, fsize) ==
  LET avail == BLen(in)
      rsize == IF fsize % 16 > 0 THEN fsize + (16 - (fsize % 16)) ELSE fsize
      framebuf == SliceB(in, Big(32), Big(32 + rsize))
      mac2 == HashWrite(f1.ingressMAC, framebuf)
      fmacseed == HashSum("keccak256", mac2)
      trailer == SliceB(in, Big(32 + rsize), Big(48 + rsize))
      u2 == updateMAC(mac2, f.macCipher, fmacseed)
      plain == XORKeyStream(f.aes, dec1, framebuf)
      dec2 == BAdd(dec1, Big(rsize))
      content == TakeB(plain, Big(fsize))
      d == DecodeCode(content)
      raw == [Code |-> d.code, Size |-> Uint32(BLen(d.rest)), Payload |-> d.rest]
      dl == SnappyDecodedLen(raw.Payload)
      sd == SnappyDecode(raw.Payload)
      f2 == [f EXCEPT !.ingressMAC = u2.mac, !.dec = dec1]
      f3 == [f EXCEPT !.ingressMAC = u2.mac, !.dec = dec2]
  IN IF BLt(avail, Big(48 + rsize)) THEN {ReadWait(f)}
     ELSE IF ~hmacEqual(u2.sum, trailer) THEN {ReadRet("badFrameMAC", f2, 48 + rsize, NoMsg)}
     ELSE IF content # <<>> /\ ByteAt(content, 0) < 0
     THEN {ReadRet("rlp", f3, 48 + rsize, NoMsg),
           ReadRet("none", f3, 48 + rsize, GarbledMsg(content))}
          \cup (IF f.snappy THEN {ReadRet("snappy", f3, 48 + rsize, GarbledMsg(content))} ELSE {})
     ELSE IF ~d.ok THEN {ReadRet("rlp", f3, 48 + rsize, NoMsg)}
     ELSE IF ~f.snappy THEN {ReadRet("none", f3, 48 + rsize, raw)}
     ELSE IF ~dl.ok THEN {ReadRet("snappy", f3, 48 + rsize, raw)}
     ELSE IF ~sd.ok THEN {ReadRet("snappy", f3, 48 + rsize, raw)}
     ELSE IF dl.n > maxUint24 THEN {ReadRet("plainTooLarge", f3, 48 + rsize, raw)}
     ELSE {ReadRet("none", f3, 48 + rsize,
                   [Code |-> d.code, Size |-> Big(dl.n), Payload |-> sd.data])}

\* rlpxFrameRW.ReadMsg from the frame content on, for a codec f1 that has
\* verified the header MAC, with the stream cipher at dec1 and the frame
\* size fsize read from the header: the outcomes the call can have
readFrame(f, f1, in, dec1, fsize) ==
  LET avail == BLen(in)
      rsize == IF fsize % 16 > 0 THEN fsize + (16 - (fsize % 16)) ELSE fsize
      framebuf == SliceB(in, Big(32), Big(32 + rsize))
      mac2 == HashWrite(f1.ingressMAC, framebuf)
      fmacseed == HashSum("keccak256", mac2)
      trailer == SliceB(in, Big(32 + rsize), Big(48 + rsize))
      u2 == updateMAC(mac2, f.macCipher, fmacseed)
      plain == XORKeyStream(f.aes, dec1, framebuf)
      dec2 == BAdd(dec1, Big(rsize))
      content == TakeB(plain, Big(fsize))
      d == DecodeCode(content)
      raw == [Code |-> d.code, Size |-> Uint32(BLen(d.rest)), Payload |-> d.rest]
      dl == SnappyDecodedLen(raw.Payload)
      sd == SnappyDecode(raw.Payload)
      f2 == [f EXCEPT !.ingressMAC = u2.mac, !.dec = dec1]
      f3 == [f EXCEPT !.ingressMAC = u2.mac, !.dec = dec2]
  IN IF BLt(avail, Big(48 + rsize)) THEN {ReadWait(f)}
     ELSE IF ~hmacEqual(u2.sum, trailer) THEN {ReadRet("badFrameMAC", f2, 48 + rsize, NoMsg)}
     ELSE IF content # <<>> /\ ByteAt(content, 0) < 0
     THEN {ReadRet("rlp", f3, 48 + rsize, NoMsg),
           ReadRet("none", f3, 48 + rsize, GarbledMsg(content))}
          \cup (IF f.snappy THEN {ReadRet("snappy", f3, 48 + rsize, GarbledMsg(content))} ELSE {})
     ELSE IF ~d.ok THEN {ReadRet("rlp", f3, 48 + rsize, NoMsg)}
     ELSE IF ~f.snappy THEN {ReadRet("none", f3, 48 + rsize, raw)}
     ELSE IF ~dl.ok THEN {ReadRet("snappy", f3, 48 + rsize, raw)}
     ELSE IF dl.n > maxUint24 THEN {ReadRet("plainTooLarge", f3, 48 + rsize, raw)}
     ELSE IF ~sd.ok THEN {ReadRet("snappy", f3, 48 + rsize, raw)}
     ELSE {ReadRet("none", f3, 48 + rsize,
                   [Code |-> d.code, Size |-> Big(dl.n), Payload |-> sd.data])}

\* ReadMsg decrypting the header before it compares the header MAC
ReadMsg_DecryptFirst(f, in) ==
  LET headbuf == TakeB(in, Big(32))
      u1 == updateMAC(f.ingressMAC, f.macCipher, TakeB(headbuf, Big(16)))
      head == XORKeyStream(f.aes, f.dec, TakeB(headbuf, Big(16)))
      dec1 == BAdd(f.dec, Big(16))
      fsize == readInt24(head)
      f1 == [f EXCEPT !.ingressMAC = u1.mac, !.dec = dec1]
  IN IF BLt(BLen(in), Big(32)) THEN {ReadWait(f)}
     ELSE IF ~hmacEqual(u1.sum, DropB(headbuf, Big(16)))
     THEN {ReadRet("badHeaderMAC", f1, 32, NoMsg)}
     ELSE UNION {readFrame(f, f1, in, dec1, n) :
                   n \in IF fsize >= 0 THEN {fsize} ELSE GarbledSizes}

\* rlpxFrameRW.ReadMsg on the bytes in: the outcomes the call can have, each
\* with whether the call waits for more bytes, the error, the codec after the
\* call, the number of bytes taken from the connection and the message
ReadMsg(f, in) ==
  LET headbuf == TakeB(in, Big(32))
      u1 == updateMAC(f.ingressMAC, f.macCipher, TakeB(headbuf, Big(16)))
      head == XORKeyStream(f.aes, f.dec, TakeB(headbuf, Big(16)))
      dec1 == BAdd(f.dec, Big(16))
      fsize == readInt24(head)
      f1 == [f EXCEPT !.ingressMAC = u1.mac]
  IN IF BLt(BLen(in), Big(32)) THEN {ReadWait(f)}
     ELSE IF ~hmacEqual(u1.sum, DropB(headbuf, Big(16)))
     THEN {ReadRet("badHeaderMAC", f1, 32, NoMsg)}
     ELSE UNION {readFrame(f, f1, in, dec1, n) :
                   n \in IF fsize >= 0 THEN {fsize} ELSE GarbledSizes}

(***************************************************************************)
(* Two frame codecs over one connection, set up from a matched pair of     *)
(* secrets.                                                                *)
(***************************************************************************)
\* A matched pair of secrets, as the two roles of one handshake return them:
\* the same keys on both sides and the two seeded MAC states crossed over.
\* The keys and the seeded states are opaque values here.
MatchedSecrets ==
  LET aesSecret == Blob(<<"key", "aes">>, 32)
      macSecret == Blob(<<"key", "mac">>, 32)
      mac1 == Blob(<<"seed", 1>>, shaLen + encAuthMsgLen)
      mac2 == Blob(<<"seed", 2>>, shaLen + encAuthRespLen)
  IN [s \in Sides |->
        [ok |-> TRUE, Remote |-> Pub(IF s = "I" THEN StaticR ELSE StaticI),
         AES |-> aesSecret, MAC |-> macSecret,
         EgressMAC |-> IF s = "I" THEN mac1 ELSE mac2,
         IngressMAC |-> IF s = "I" THEN mac2 ELSE mac1]]

Msg(code, payload) == [Code |-> code, Size |-> Uint32(BLen(payload)), Payload |-> payload]
Data(n) == BlobB(<<"data", n>>, n)
\* messages with payloads of 0, 1, 15, 16 and 17 bytes, payloads that end in
\* zero bytes, codes of one, two and three encoded bytes, and payloads at
\* and beyond the frame size limit
Msgs ==
  {Msg(1, <<>>), Msg(1, Const(7, 1)), Msg(1, Const(7, 15)), Msg(1, Data(Big(16))),
   Msg(1, Data(Big(17))), Msg(0, Const(0, 2)), Msg(200, Bytes(<<1, 0>>)), Msg(300, Data(Big(13))),
   Msg(1, Data(<<0, maxUint24 - 1>>)), Msg(1, Data(<<0, maxUint24>>)),
   Msg(1, Data(<<1, 0>>)), Msg(0, Data(<<255, maxUint24>>)), Msg(200, Data(<<0, maxUint24 - 9>>))}
ReplyMsgs == {Msg(1, Const(7, 1)), Msg(16, Data(Big(20)))}
TamperMsgs == {Msg(1, Const(7, 15)), Msg(200, Data(Big(17)))}

Calls(s) == Len(sent[s])
Accepted(s) == SelectSeq(sent[s], LAMBDA e : e.err = "none")
Delivered(s) == SelectSeq(rcvd[s], LAMBDA e : e.err = "none")
ReadErrors(s) == Len(rcvd[s]) - Len(Delivered(s))
MaxReadErrors == 2

\* both codecs of an established connection, snappy[s] being the compression
\* flag of side s
Established(snappy) ==
  /\ CryptoType = "P256"
  /\ cfg = [s \in Sides |-> [prv |-> IF s = "I" THEN StaticI ELSE StaticR,
                             dial |-> IF s = "I" THEN Pub(StaticR) ELSE NoKey,
                             ver |-> TaiRLPXVersion, cert |-> NoCert,
                             past |-> NoPast]]
  /\ pc = [s \in Sides |-> "done"]
  /\ h = [s \in Sides |-> NewEncHandshake]
  /\ loc = [s \in Sides |-> NoLoc]
  /\ sec = MatchedSecrets
  /\ rw = [s \in Sides |-> [newRLPXFrameRW(MatchedSecrets[s]) EXCEPT !.snappy = snappy[s]]]
  /\ wire = [s \in Sides |-> <<>>]
  /\ err = [s \in Sides |-> "none"]
  /\ sent = [s \in Sides |-> <<>>]
  /\ rcvd = [s \in Sides |-> <<>>]
  /\ lastW = [s \in Sides |-> NoOutcome]
  /\ lastR = [s \in Sides |-> NoOutcome]
  /\ tampered = [s \in Sides |-> NoTamper]
  /\ NoCalls

\* an established connection with compression on both sides or on neither
FrameInit == \E snappy \in BOOLEAN : Established([s \in Sides |-> snappy])

\* a codec with one stream cipher for both directions: a write moves the
\* position of the reads too
Wrote_SharedStream(s, m, r) ==
  /\ rw' = [rw EXCEPT ![s] = [r.rw EXCEPT !.dec = r.rw.enc]]
  /\ wire' = [wire EXCEPT ![Peer(s)] = Cat(@, r.out)]
  /\ sent' = [sent EXCEPT ![s] = Append(@, [msg |-> m, err |-> r.err, frame |-> r.out])]
  /\ lastW' = [lastW EXCEPT ![s] = [called |-> TRUE, err |-> r.err, msg |-> m,
                                    before |-> rw[s], out |-> r.out]]

\* the state of side s after a WriteMsg call on its codec that returned r
Wrote(s, m, r) ==
  /\ rw' = [rw EXCEPT ![s] = r.rw]
  /\ wire' = [wire EXCEPT ![Peer(s)] = Cat(@, r.out)]
  /\ sent' = [sent EXCEPT ![s] = Append(@, [msg |-> m, err |-> r.err, frame |-> r.out])]
  /\ lastW' = [lastW EXCEPT ![s] = [called |-> TRUE, err |-> r.err, msg |-> m,
                                    before |-> rw[s], out |-> r.out]]

\* a call of rlpxFrameRW.WriteMsg on side s
FrameWrite(s, m) ==
  /\ rw[s].live
  /\ Calls("I") + Calls("R") < MaxFrames
  /\ Wrote(s, m, WriteMsg(rw[s], m))
  /\ UNCHANGED <<CryptoType, hsVars, err, rcvd, lastR, tampered>>

\* a call of rlpxFrameRW.ReadMsg on side s that has the bytes it waits for
FrameRead(s) ==
  /\ rw[s].live
  /\ ReadErrors(s) < MaxReadErrors
  /\ \E r \in ReadMsg(rw[s], wire[s]) :
        /\ ~r.blocked
        /\ rw' = [rw EXCEPT ![s] = r.rw]
        /\ wire' = [wire EXCEPT ![s] = DropB(@, r.taken)]
        /\ rcvd' = [rcvd EXCEPT ![s] = Append(@, [msg |-> r.msg, err |-> r.err])]
        /\ lastR' = [lastR EXCEPT ![s] = [called |-> TRUE, err |-> r.err, msg |-> r.msg,
                                          before |-> rw[s], taken |-> r.taken,
                                          input |-> TakeB(wire[s], r.taken)]]
  /\ UNCHANGED <<CryptoType, hsVars, err, sent, lastW, tampered>>

FrameNext ==
  \/ \E s \in Sides : \E m \in IF s = "I" THEN Msgs ELSE ReplyMsgs : FrameWrite(s, m)
  \/ \E s \in Sides : FrameRead(s)

SpecFrame == FrameInit /\ [][FrameNext]_vars

(***************************************************************************)
(* A codec R that decompresses, reading the frames of a peer I.  Either I  *)
(* compresses too, or it was told a lower version by R, writes without     *)
(* compression and chooses the bytes of each block itself: blocks that     *)
(* announce a decoded length at, just above and far above the limit, an    *)
(* empty block, one literal.                                               *)
(***************************************************************************)
SnappyNext ==
  \/ \E m \in {Msg(1, SnappyEncode(Const(7, 15))), Msg(1, Bytes(<<0>>)),
                Msg(1, <<>>), Msg(1, Bytes(<<5, 0>>)),
                Msg(1, Cat(Bytes(Uvarint(maxUint24)), Const(0, 3))),
                Msg(1, Cat(Bytes(Uvarint(maxUint24 + 1)), Const(0, 3))),
                Msg(1, Cat(Bytes(Uvarint(maxUint24 + 1)), SnappyEncode(Const(7, 15)))),
                Msg(2, Cat(Bytes(Uvarint(8 * maxUint24)), Data(Big(40))))} :
        FrameWrite("I", m)
  \/ FrameRead("R")

SpecSnappy ==
  /\ \E c \in BOOLEAN : Established([s \in Sides |-> s = "R" \/ c])
  /\ [][SnappyNext]_vars

(***************************************************************************)
(* The same connection with an attacker on the wire from I to R, who can   *)
(* flip a bit of a byte in flight, replay a frame, swap two frames or drop *)
(* a frame.                                                                *)
(***************************************************************************)
Frames(d) == [i \in 1..Len(Accepted(Peer(d))) |-> Accepted(Peer(d))[i].frame]
\* while no read has failed, every read has taken one whole frame
Unread(d) == (Len(rcvd[d]) + 1)..Len(Frames(d))
RECURSIVE FrameStart(_, _)
FrameStart(d, i) ==
  IF i <= Len(rcvd[d]) + 1 THEN Z
  ELSE BAdd(FrameStart(d, i - 1), BLen(Frames(d)[i - 1]))
\* one offset in the encrypted length, the header, the header MAC, the first
\* and the last byte of the body, the first and the last byte of the frame MAC
FlipOffsets(frame) ==
  LET L == BLen(frame)
  IN {Z, Big(3), Big(16), Big(32), BSub(L, Big(17)), BSub(L, Big(16)), BSub(L, Big(1))}
FlipAt(s, k) ==
  LET r == DropB(s, k)[1]
  IN CatAll(<<TakeB(s, k),
              <<[x |-> <<"flip", r.x, r.o>>, o |-> Z, n |-> Big(1)]>>,
              DropB(s, BAdd(k, Big(1)))>>)
RECURSIVE HasFlip(_)
HasFlip(s) == s # <<>> /\ (s[1].x[1] = "flip" \/ HasFlip(Tail(s)))

Untouched(d) == tampered[d].flips = 0 /\ ~tampered[d].moved

Flip(d, i, k) ==
  /\ ~tampered[d].moved
  /\ tampered[d].flips < MaxTamper
  /\ ReadErrors(d) = 0
  /\ i \in Unread(d)
  /\ k \in FlipOffsets(Frames(d)[i])
  /\ LET at == BAdd(FrameStart(d, i), k)
     IN /\ DropB(wire[d], at)[1].x[1] # "flip"
        /\ wire' = [wire EXCEPT ![d] = FlipAt(@, at)]
  /\ tampered' = [tampered EXCEPT ![d].flips = @ + 1]
  /\ UNCHANGED <<CryptoType, hsVars, err, rw, sent, rcvd, lastW, lastR>>

Replay(d, j) ==
  /\ Untouched(d) /\ ReadErrors(d) = 0
  /\ j \in 1..Len(Frames(d))
  /\ wire' = [wire EXCEPT ![d] = Cat(Frames(d)[j], @)]
  /\ tampered' = [tampered EXCEPT ![d].moved = TRUE]
  /\ UNCHANGED <<CryptoType, hsVars, err, rw, sent, rcvd, lastW, lastR>>

Swap(d) ==
  /\ Untouched(d) /\ ReadErrors(d) = 0
  /\ Len(rcvd[d]) + 2 \in Unread(d)
  /\ LET a == Frames(d)[Len(rcvd[d]) + 1]
         b == Frames(d)[Len(rcvd[d]) + 2]
     IN wire' = [wire EXCEPT ![d] = CatAll(<<b, a, DropB(@, BAdd(BLen(a), BLen(b)))>>)]
  /\ tampered' = [tampered EXCEPT ![d].moved = TRUE]
  /\ UNCHANGED <<CryptoType, hsVars, err, rw, sent, rcvd, lastW, lastR>>

Omit(d) ==
  /\ Untouched(d) /\ ReadErrors(d) = 0
  /\ Len(rcvd[d]) + 1 \in Unread(d)
  /\ wire' = [wire EXCEPT ![d] = DropB(@, BLen(Frames(d)[Len(rcvd[d]) + 1]))]
  /\ tampered' = [tampered EXCEPT ![d].moved = TRUE]
  /\ UNCHANGED <<CryptoType, hsVars, err, rw, sent, rcvd, lastW, lastR>>

TamperNext ==
  \/ \E m \in TamperMsgs : FrameWrite("I", m)
  \/ FrameRead("R")
  \/ \E i \in Unread("R") : \E k \in FlipOffsets(Frames("R")[i]) : Flip("R", i, k)
  \/ \E j \in 1..Len(Frames("R")) : Replay("R", j)
  \/ Swap("R")
  \/ Omit("R")

SpecTamper == FrameInit /\ [][TamperNext]_vars

(***************************************************************************)
(* Two connections, one after the other, between the same two nodes: once  *)
(* both sides of the first have returned Secrets, each node keeps them and *)
(* a new transport runs the handshake again.                               *)
(***************************************************************************)
TwoInit ==
  /\ HSInit
  /\ \A s \in Sides : cfg[s].ver = TaiRLPXVersion
  /\ cfg["I"].dial = Pub(StaticR)
  /\ \/ \A s \in Sides : cfg[s].cert = NoCert
     \/ \A s \in Sides : cfg[s].cert = MkCert(cfg[s].prv, TRUE, 3)

\* newRLPX on a new connection between the two nodes, after doEncHandshake
\* has returned on both sides of the first
NextConnection ==
  /\ \A s \in Sides : pc[s] = "done" /\ ~cfg[s].past.sec.ok
  /\ cfg' = [s \in Sides |-> [cfg[s] EXCEPT !.past = [h |-> h[s], sec |-> sec[s]]]]
  /\ pc' = [s \in Sides |-> "start"]
  /\ h' = [s \in Sides |-> NewEncHandshake]
  /\ loc' = [s \in Sides |-> NoLoc]
  /\ wire' = [s \in Sides |-> <<>>]
  /\ sec' = [s \in Sides |-> NoSecrets]
  /\ err' = [s \in Sides |-> "none"]
  /\ rw' = [s \in Sides |-> NoFrameRW]
  /\ UNCHANGED <<CryptoType, frLog>>

TwoNext == HSNext \/ NextConnection

SpecTwo == TwoInit /\ [][TwoNext]_vars

(***************************************************************************)
(* One honest side with an attacker at the other end of its connection.    *)
(* The attacker holds the static key StaticX and ephemeral keys and nonces *)
(* of its own, knows every public key and certificate, reads what the      *)
(* honest side writes, and writes what it can build from what it knows.    *)
(* What it cannot read it replaces by a guess from what it knows.          *)
(***************************************************************************)
Honest(s) == pc[s] # "attacker"
AttackerPubs == {Pub(StaticI), Pub(<<"X", 1>>)}
AuthMsgs == {Msg(1, Const(7, 1))}

AuthInit ==
  /\ CryptoType \in CryptoTypes
  /\ \E v \in Sides : \E dial \in {Pub(StaticR), Pub(StaticX)} :
     \E cert \in {NoCert, MkCert(IF v = "I" THEN StaticI ELSE StaticR, TRUE, 3)} :
       /\ v = "R" => dial = Pub(StaticR)
       /\ cfg = [s \in Sides |->
                  IF s = v
                  THEN [prv |-> IF s = "I" THEN StaticI ELSE StaticR,
                        dial |-> IF s = "I" THEN dial ELSE NoKey,
                        ver |-> TaiRLPXVersion, cert |-> cert, past |-> NoPast]
                  ELSE [prv |-> StaticX,
                        dial |-> IF s = "I" THEN Pub(StaticR) ELSE NoKey,
                        ver |-> TaiRLPXVersion, cert |-> NoCert, past |-> NoPast]]
       /\ pc = [s \in Sides |-> IF s = v THEN "start" ELSE "attacker"]
  /\ h = [s \in Sides |-> NewEncHandshake]
  /\ loc = [s \in Sides |-> NoLoc]
  /\ wire = [s \in Sides |-> <<>>]
  /\ sec = [s \in Sides |-> NoSecrets]
  /\ err = [s \in Sides |-> "none"]
  /\ rw = [s \in Sides |-> NoFrameRW]
  /\ sent = [s \in Sides |-> <<>>]
  /\ rcvd = [s \in Sides |-> <<>>]
  /\ lastW = [s \in Sides |-> NoOutcome]
  /\ lastR = [s \in Sides |-> NoOutcome]
  /\ tampered = [s \in Sides |-> NoTamper]
  /\ NoCalls

\* the attacker dials the honest receiver: an auth message built by
\* makeAuthMsg with the attacker's keys, naming the static key of its choice
AttackerAuth ==
  /\ pc["I"] = "attacker" /\ pc["R"] = "start"
  /\ loc["I"].written = <<>>
  /\ \E claimed \in {StaticI, StaticX}, nonce \in {Blob(<<"nonce", "X", 1>>, shaLen)}, key \in {<<"X", 1>>} :
       LET h0 == [NewEncHandshake EXCEPT !.initiator = TRUE, !.remote = Pub(StaticR),
                                         !.CertSize = Uint16(CertLen(cfg["R"]))]
           m == makeAuthMsg(h0, StaticX, nonce, key, TaiRLPXVersion)
           forged == [m.msg EXCEPT !.InitiatorPubkey = exportPubkey(Pub(claimed))]
           authPacket == sealPlain(forged, m.h, encAuthMsgLen)
       IN /\ h' = [h EXCEPT !["I"] = m.h]
          /\ loc' = [loc EXCEPT !["I"].authPacket = authPacket,
                                !["I"].written = Append(@, authPacket)]
          /\ wire' = [wire EXCEPT !["R"] = Cat(@, authPacket)]
  /\ UNCHANGED <<CryptoType, cfg, pc, sec, err, rw, frLog>>

\* the attacker, having dialled, computes secrets from the auth response:
\* with handleAuthResp when it can decrypt the packet, from guesses otherwise
AttackerDerive ==
  /\ pc["I"] = "attacker" /\ ~rw["I"].live
  /\ rw["R"].live
  /\ \E guessPub \in AttackerPubs, guessNonce \in {Blob(<<"nonce", "X", 1>>, shaLen)} :
       LET packet == loc["R"].authRespPacket
           hh == IF CanDecrypt(StaticX, packet)
                 THEN handleAuthResp(h["I"], Decrypt(StaticX, packet), TaiRLPXVersion).h
                 ELSE [h["I"] EXCEPT !.respNonce = guessNonce,
                                     !.remoteRandomPub = guessPub]
           sc == secrets(hh, loc["I"].authPacket, packet)
       IN /\ h' = [h EXCEPT !["I"] = hh]
          /\ loc' = [loc EXCEPT !["I"].authRespPacket = packet]
          /\ sec' = [sec EXCEPT !["I"] = sc]
          /\ rw' = [rw EXCEPT !["I"] = IF sc.ok /\ ~newRLPXFrameRWPanics(sc)
                                        THEN newRLPXFrameRW(sc) ELSE @]
          /\ wire' = [wire EXCEPT !["I"] = DropB(@, Big(encAuthRespLen))]
  /\ UNCHANGED <<CryptoType, cfg, pc, err, frLog>>

\* the attacker answers the honest initiator: handleAuthMsg when it can
\* decrypt the auth packet, guesses otherwise; then makeAuthResp, sealPlain
\* and secrets with the attacker's keys
AttackerResp ==
  /\ pc["R"] = "attacker" /\ pc["I"] = "readResp"
  /\ loc["R"].written = <<>>
  /\ \E nonce \in {Blob(<<"nonce", "X", 1>>, shaLen)}, key \in {<<"X", 1>>} :
     \E guessPub \in AttackerPubs, guessNonce \in {Blob(<<"nonce", "X", 1>>, shaLen)} :
       LET packet == loc["I"].authPacket
           h0 == [NewEncHandshake EXCEPT !.CertSize = Uint16(CertLen(cfg["I"]))]
           hh == IF CanDecrypt(StaticX, packet)
                 THEN handleAuthMsg(h0, Decrypt(StaticX, packet), StaticX, key).h
                 ELSE [h0 EXCEPT !.remote = Pub(StaticI), !.initNonce = guessNonce,
                                 !.randomPrivKey = key, !.remoteRandomPub = guessPub]
           a == makeAuthResp(hh, nonce, TaiRLPXVersion)
           authRespPacket == sealPlain(a.msg, a.h, encAuthRespLen)
           sc == secrets(a.h, packet, authRespPacket)
       IN /\ h' = [h EXCEPT !["R"] = a.h]
          /\ loc' = [loc EXCEPT !["R"].authPacket = packet,
                                !["R"].authRespPacket = authRespPacket,
                                !["R"].written = Append(@, authRespPacket)]
          /\ sec' = [sec EXCEPT !["R"] = sc]
          /\ rw' = [rw EXCEPT !["R"] = IF sc.ok /\ ~newRLPXFrameRWPanics(sc)
                                        THEN newRLPXFrameRW(sc) ELSE @]
          /\ wire' = [wire EXCEPT !["R"] = <<>>, !["I"] = Cat(@, authRespPacket)]
  /\ UNCHANGED <<CryptoType, cfg, pc, err, frLog>>

\* the attacker sends the honest side that waits for a handshake packet one
\* that is encrypted to its public key, or to another key, and whose
\* plaintext is not the encoding of a message
AttackerJunk(v) ==
  /\ Honest(v) /\ loc[Peer(v)].written = <<>>
  /\ pc[v] = (IF v = "I" THEN "readResp" ELSE "start")
  /\ \E k \in {1, 40} : \E key \in {Pub(cfg[v].prv), Pub(StaticX)} :
       LET packet == Encrypt(key, [junk |-> k],
                             IF v = "I" THEN encAuthRespLen ELSE encAuthMsgLen)
       IN /\ wire' = [wire EXCEPT ![v] = Cat(@, packet)]
          /\ loc' = [loc EXCEPT ![Peer(v)].written = Append(@, packet)]
  /\ UNCHANGED <<CryptoType, cfg, pc, h, sec, err, frVars>>

\* the attacker sends a certificate everyone knows to the honest side that
\* waits for one
AttackerCert(v) ==
  /\ Honest(v) /\ pc[v] = "readCert" /\ wire[v] = <<>>
  /\ \E c \in {MkCert(k, TRUE, 3) : k \in {StaticI, StaticR, StaticX}} : wire' = [wire EXCEPT ![v] = c]
  /\ UNCHANGED <<CryptoType, hsVars, err, frVars>>

\* the attacker sends the honest side its own last frame back
Reflect(v) ==
  /\ Honest(v) /\ sent[v] # <<>> /\ ~tampered[v].moved
  /\ wire' = [wire EXCEPT ![v] = Cat(@, sent[v][Len(sent[v])].frame)]
  /\ tampered' = [tampered EXCEPT ![v].moved = TRUE]
  /\ UNCHANGED <<CryptoType, hsVars, err, rw, sent, rcvd, lastW, lastR>>

AuthNext ==
  \/ AttackerAuth
  \/ AttackerDerive
  \/ AttackerResp
  \/ \E v \in Sides : AttackerJunk(v)
  \/ \E v \in Sides : AttackerCert(v)
  \/ \E v \in Sides : Reflect(v)
  \/ InitiatorStart
  \/ InitiatorResp
  \/ InitiatorCert
  \/ ReceiverStart
  \/ ReceiverCert
  \/ \E s \in Sides : \E m \in AuthMsgs : FrameWrite(s, m)
  \/ \E s \in Sides : Honest(s) /\ FrameRead(s)

SpecAuth == AuthInit /\ [][AuthNext]_vars

(***************************************************************************)
(* The transport's ReadMsg, WriteMsg and close, called by its owner on a   *)
(* transport that is either newly constructed or has completed the         *)
(* handshake.  pc "closed" is a transport whose connection t.fd has been   *)
(* closed; rw[s].live tells whether t.rw was set before.                   *)
(***************************************************************************)
\* the message code and the reasons rlpx.close is handed (their values are
\* declared in the p2p package next to rlpx.go); "other" is an error that
\* is not a DiscReason
\* the message SendItems(t.rw, discMsg, r) writes: code discMsg = 1 and the
\* RLP encoding of the one-element list holding the reason (0, 1 or 2)
DiscMsg(e) ==
  Msg(1, Bytes(<<193, IF e = "DiscRequested" THEN 128
                      ELSE IF e = "DiscNetworkError" THEN 1 ELSE 2>>))

\* rlpxFrameRW.WriteMsg on a closed connection, r being what the call returns
\* on an open one: the first conn.Write fails after the header has gone
\* through the cipher stream and the egress MAC
WriteFailed(f, r) ==
  IF r.err # "none" THEN r
  ELSE [err |-> "closed",
        rw |-> [f EXCEPT !.enc = BAdd(f.enc, Big(16)),
                         !.egressMAC = updateMAC(f.egressMAC, f.macCipher,
                                                 TakeB(r.out, Big(16))).mac],
        out |-> <<>>]

\* after newRLPX on both sides, or after doEncHandshake has succeeded on both
LifeInit ==
  \/ FrameInit
  \/ HSInit /\ CryptoType = "P256" /\ cfg["I"].dial = Pub(StaticR)
            /\ \A s \in Sides : cfg[s].ver = TaiRLPXVersion /\ cfg[s].cert = NoCert

\* rlpx.close without the fd.Close() at its end
Close_LeavesOpen(s, e) ==
  /\ pc[s] \in {"start", "failed", "done", "closed"}
  /\ \E deadlineSet \in {pc[s] # "closed"} \cup {FALSE} :
       IF rw[s].live /\ e \notin {"other", "DiscNetworkError"} /\ deadlineSet
       THEN Wrote(s, DiscMsg(e), WriteMsg(rw[s], DiscMsg(e)))
       ELSE UNCHANGED <<rw, wire, sent, lastW>>
  /\ UNCHANGED <<CryptoType, hsVars, err, rcvd, lastR, tampered>>

\* rlpx.close sending the reason whatever it is and whether or not the
\* write deadline could be set
Close_SendsAlways(s, e) ==
  /\ pc[s] \in {"start", "failed", "done", "closed"}
  /\ pc' = [pc EXCEPT ![s] = "closed"]
  /\ IF rw[s].live /\ e # "other"
     THEN /\ deadline' = [deadline EXCEPT ![s].wd = "armed"]
          /\ Wrote(s, DiscMsg(e), WriteMsg(rw[s], DiscMsg(e)))
     ELSE UNCHANGED <<rw, wire, sent, lastW, deadline>>
  /\ UNCHANGED <<CryptoType, cfg, h, loc, sec, err, rcvd, lastR, tampered, mu, gor, ph, call, lru>>

\* rlpx.close(err), called by the owner of the transport before or after
\* the handshake
Close(s, e) ==
  /\ pc[s] \in {"start", "failed", "done", "closed"}
  /\ pc' = [pc EXCEPT ![s] = "closed"]
  /\ \E deadlineSet \in {pc[s] # "closed"} \cup {FALSE} :
       IF rw[s].live /\ e \notin {"other", "DiscNetworkError"} /\ deadlineSet
       THEN /\ deadline' = [deadline EXCEPT ![s].wd = "armed"]
            /\ Wrote(s, DiscMsg(e), WriteMsg(rw[s], DiscMsg(e)))
       ELSE UNCHANGED <<rw, wire, sent, lastW, deadline>>
  /\ UNCHANGED <<CryptoType, cfg, h, loc, sec, err, rcvd, lastR, tampered, mu, gor, ph, call, lru>>

\* rlpx.ReadMsg, called by the owner of the transport
TransportRead(s) ==
  \/ pc[s] = "done" /\ FrameRead(s)
  \/ /\ pc[s] = "closed" /\ rw[s].live
     /\ ReadErrors(s) < MaxReadErrors
     /\ rcvd' = [rcvd EXCEPT ![s] = Append(@, [msg |-> NoMsg, err |-> "closed"])]
     /\ lastR' = [lastR EXCEPT ![s] = [called |-> TRUE, err |-> "closed", msg |-> NoMsg,
                                       before |-> rw[s], taken |-> Z, input |-> <<>>]]
     /\ UNCHANGED <<CryptoType, hsVars, wire, err, rw, sent, lastW, tampered>>
  \/ /\ pc[s] = "done" /\ rw[s].live /\ pc[Peer(s)] = "closed"
     /\ ReadErrors(s) < MaxReadErrors
     /\ wire[s] = <<>>
     /\ rcvd' = [rcvd EXCEPT ![s] = Append(@, [msg |-> NoMsg, err |-> "eof"])]
     /\ lastR' = [lastR EXCEPT ![s] = [called |-> TRUE, err |-> "eof", msg |-> NoMsg,
                                       before |-> rw[s], taken |-> Z, input |-> <<>>]]
     /\ UNCHANGED <<CryptoType, hsVars, wire, err, rw, sent, lastW, tampered>>
  \/ /\ pc[s] = "closed" /\ ~rw[s].live
     /\ Panic(s, "panicNilRead")
     /\ UNCHANGED <<CryptoType, cfg, h, loc, wire, frLog>>

\* rlpx.WriteMsg, called by the owner of the transport
TransportWrite(s, m) ==
  \/ pc[s] = "done" /\ FrameWrite(s, m)
  \/ /\ pc[s] = "closed" /\ rw[s].live
     /\ Calls("I") + Calls("R") < MaxFrames
     /\ Wrote(s, m, WriteFailed(rw[s], WriteMsg(rw[s], m)))
     /\ UNCHANGED <<CryptoType, hsVars, err, rcvd, lastR, tampered>>
  \/ /\ pc[s] = "closed" /\ ~rw[s].live
     /\ Panic(s, "panicNilWrite")
     /\ UNCHANGED <<CryptoType, cfg, h, loc, wire, frLog>>

LifeNext ==
  \/ \E s \in Sides : \E e \in {"DiscRequested", "DiscNetworkError", "DiscProtocolError", "other"} :
        Close(s, e)
  \/ \E s \in Sides : TransportRead(s)
  \/ \E s \in Sides : \E m \in AuthMsgs : TransportWrite(s, m)

SpecLife == LifeInit /\ [][LifeNext]_vars

(***************************************************************************)
(* doProtoHandshake on both sides of a connection whose encryption         *)
(* handshake has succeeded.  The call starts a goroutine that writes the   *)
(* local handshake message and sends the result on the channel werr, reads *)
(* the peer's message, receives from werr and returns.  Instead of calling *)
(* it, the owner of a side may close the transport with a reason.  The     *)
(* message codes, the size limit and the version threshold are declared in *)
(* the p2p package next to rlpx.go: handshakeMsg = 0, discMsg = 1,         *)
(* baseProtocolMaxMsgSize = 2048.                                          *)
(***************************************************************************)
snappyProtocolVersion == 5
baseProtocolMaxMsgSize == 2048

\* the encoding of a protoHandshake with the given Version and an ID of
\* idLen bytes, all zero or not, as a payload of size bytes
Handshake(version, idLen, idNonZero, size) ==
  Blob(<<"hs", version, <<idLen, idNonZero>>>>, size)
\* msg.Decode(&hs): whether the payload is the encoding of a protoHandshake
DecodesAsHandshake(payload) ==
  Len(payload) = 1 /\ payload[1].x[1] = "hs" /\ payload[1].o = Z

\* the reason that a disconnect message carries: rlp.Decode into reason[0],
\* which stays 0, DiscRequested, when the payload does not decode
DiscReasonOf(payload) ==
  IF ByteAt(payload, 1) = 2 THEN "DiscProtocolError"
  ELSE IF ByteAt(payload, 1) = 1 THEN "DiscNetworkError" ELSE "DiscRequested"

\* readProtocolHandshake looking at the message code before the size
readProtocolHandshake_CodeFirst(r) ==
  IF r.err # "none" THEN [err |-> r.err, their |-> 0]
  ELSE IF r.msg.Code = 1 THEN [err |-> DiscReasonOf(r.msg.Payload), their |-> 0]
  ELSE IF BLt(Big(baseProtocolMaxMsgSize), r.msg.Size) THEN [err |-> "tooBig", their |-> 0]
  ELSE IF r.msg.Code # 0 THEN [err |-> "expectedHandshake", their |-> 0]
  ELSE IF ~DecodesAsHandshake(r.msg.Payload) THEN [err |-> "rlp", their |-> 0]
  ELSE IF r.msg.Payload[1].x[3][1] # 64 \/ ~r.msg.Payload[1].x[3][2]
  THEN [err |-> "DiscInvalidIdentity", their |-> 0]
  ELSE [err |-> "none", their |-> r.msg.Payload[1].x[2]]

\* readProtocolHandshake, r being what t.rw.ReadMsg() returned
readProtocolHandshake(r) ==
  IF r.err # "none" THEN [err |-> r.err, their |-> 0]
  ELSE IF BLt(Big(baseProtocolMaxMsgSize), r.msg.Size) THEN [err |-> "tooBig", their |-> 0]
  ELSE IF r.msg.Code = 1 THEN [err |-> DiscReasonOf(r.msg.Payload), their |-> 0]
  ELSE IF r.msg.Code # 0 THEN [err |-> "expectedHandshake", their |-> 0]
  ELSE IF ~DecodesAsHandshake(r.msg.Payload) THEN [err |-> "rlp", their |-> 0]
  ELSE IF r.msg.Payload[1].x[3][1] # 64 \/ ~r.msg.Payload[1].x[3][2]
  THEN [err |-> "DiscInvalidIdentity", their |-> 0]
  ELSE [err |-> "none", their |-> r.msg.Payload[1].x[2]]

\* the result with the write error taking precedence over the read error
protoResult_PreferWrite(rerr, werr, their) ==
  IF werr # "none" THEN [ret |-> "writeError", snappy |-> FALSE]
  ELSE IF rerr # "none" THEN [ret |-> rerr, snappy |-> FALSE]
  ELSE [ret |-> "none", snappy |-> their >= snappyProtocolVersion]

\* the result with compression switched on whatever the peer's version
protoResult_SnappyAlways(rerr, werr, their) ==
  IF rerr # "none" THEN [ret |-> rerr, snappy |-> FALSE]
  ELSE IF werr # "none" THEN [ret |-> "writeError", snappy |-> FALSE]
  ELSE [ret |-> "none", snappy |-> TRUE]

\* what doProtoHandshake returns and assigns to t.rw.snappy, given the error
\* of the read, the error received from werr and the peer's version
protoResult(rerr, werr, their) ==
  IF rerr # "none" THEN [ret |-> rerr, snappy |-> FALSE]
  ELSE IF werr # "none" THEN [ret |-> "writeError", snappy |-> FALSE]
  ELSE [ret |-> "none", snappy |-> their >= snappyProtocolVersion]

\* doProtoHandshake up to the start of the writer goroutine
ProtoStart(s) ==
  /\ pc[s] = "done" /\ ph[s].pc = "idle"
  /\ \E v \in {snappyProtocolVersion - 1, snappyProtocolVersion} :
       ph' = [ph EXCEPT ![s].pc = "reading", ![s].w = "running", ![s].our = v]
  /\ UNCHANGED <<CryptoType, cfg, pc, h, loc, wire, sec, err, rw, sent, rcvd,
                 lastW, lastR, tampered, mu, gor, deadline, call, lru>>

\* the state after Send(t.rw, handshakeMsg, our) in the goroutine, r being
\* what t.rw.WriteMsg returned
ProtoSent(s, r) ==
  /\ rw' = [rw EXCEPT ![s] = r.rw]
  /\ wire' = [wire EXCEPT ![Peer(s)] = Cat(@, r.out)]
  /\ ph' = [ph EXCEPT ![s].w = "wrote", ![s].wres = r.err]

\* the result r of a write, or what it is when the connection fails
WriteResult(fail, f, r) == IF fail THEN WriteFailed(f, r) ELSE r

\* the goroutine's Send; the write can fail once the peer has closed
ProtoSend(s) ==
  /\ ph[s].w = "running"
  /\ \E fail \in {FALSE, pc[Peer(s)] = "closed"} :
       ProtoSent(s, WriteResult(fail, rw[s],
                                WriteMsg(rw[s], Msg(0, Handshake(ph[s].our, 64, TRUE, 10)))))
  /\ UNCHANGED <<CryptoType, cfg, pc, h, loc, sec, err, sent, rcvd,
                 lastW, lastR, tampered, mu, gor, deadline, call, lru>>

\* the goroutine's send on werr, a channel of capacity 1
ProtoDeliver(s) ==
  /\ ph[s].w = "wrote"
  /\ Len(ph[s].werr) < 1
  /\ ph' = [ph EXCEPT ![s].w = "exited", ![s].werr = Append(@, ph[s].wres)]
  /\ UNCHANGED <<CryptoType, cfg, pc, h, loc, wire, sec, err, rw, sent, rcvd,
                 lastW, lastR, tampered, mu, gor, deadline, call, lru>>

\* readProtocolHandshake(t.rw) in doProtoHandshake
ProtoRead(s) ==
  /\ ph[s].pc = "reading"
  /\ \/ \E r \in ReadMsg(rw[s], wire[s]) :
          /\ ~r.blocked
          /\ rw' = [rw EXCEPT ![s] = r.rw]
          /\ wire' = [wire EXCEPT ![s] = DropB(@, r.taken)]
          /\ ph' = [ph EXCEPT ![s].pc = "read",
                              ![s].rerr = readProtocolHandshake(r).err,
                              ![s].their = readProtocolHandshake(r).their]
     \/ /\ pc[Peer(s)] = "closed"
        /\ wire[s] = <<>>
        /\ ph' = [ph EXCEPT ![s].pc = "read", ![s].rerr = "eof"]
        /\ UNCHANGED <<rw, wire>>
  /\ UNCHANGED <<CryptoType, cfg, pc, h, loc, sec, err, sent, rcvd,
                 lastW, lastR, tampered, mu, gor, deadline, call, lru>>

\* doProtoHandshake returning on a read error without receiving from werr
ProtoReturn_NoWait(s) ==
  /\ ph[s].pc = "read"
  /\ ph[s].rerr # "none" \/ ph[s].werr # <<>>
  /\ ph' = [ph EXCEPT ![s].pc = "returned", ![s].werr = <<>>,
                      ![s].ret = IF ph[s].rerr # "none" THEN ph[s].rerr
                                 ELSE protoResult("none", ph[s].werr[1], ph[s].their).ret]
  /\ rw' = [rw EXCEPT ![s].snappy =
               ph[s].rerr = "none" /\ protoResult("none", ph[s].werr[1], ph[s].their).snappy]
  /\ UNCHANGED <<CryptoType, cfg, pc, h, loc, wire, sec, err, sent, rcvd,
                 lastW, lastR, tampered, mu, gor, deadline, call, lru>>

\* the rest of doProtoHandshake: the receive from werr, the assignment of
\* t.rw.snappy and the return
ProtoReturn(s) ==
  /\ ph[s].pc = "read"
  /\ ph[s].werr # <<>>
  /\ ph' = [ph EXCEPT ![s].pc = "returned", ![s].werr = <<>>,
                      ![s].ret = protoResult(ph[s].rerr, ph[s].werr[1], ph[s].their).ret]
  /\ rw' = [rw EXCEPT ![s].snappy =
               protoResult(ph[s].rerr, ph[s].werr[1], ph[s].their).snappy]
  /\ UNCHANGED <<CryptoType, cfg, pc, h, loc, wire, sec, err, sent, rcvd,
                 lastW, lastR, tampered, mu, gor, deadline, call, lru>>

ProtoNext ==
  \/ \E s \in Sides : ProtoStart(s)
  \/ \E s \in Sides : ProtoSend(s)
  \/ \E s \in Sides : ProtoDeliver(s)
  \/ \E s \in Sides : ProtoRead(s)
  \/ \E s \in Sides : ProtoReturn(s)
  \/ \E s \in Sides : \E e \in {"DiscProtocolError", "other"} :
        ph[s].pc \in {"idle", "returned"} /\ pc[s] = "done" /\ Close(s, e)
  \/ \E s \in Sides :
        ph[s].pc = "returned" /\ ph[s].ret = "none" /\ TransportRead(s)
  \/ \E s \in Sides : \E m \in AuthMsgs :
        ph[s].pc = "returned" /\ ph[s].ret = "none" /\ TransportWrite(s, m)

SpecProto == Established([s \in Sides |-> FALSE]) /\ [][ProtoNext]_vars

(***************************************************************************)
(* An established transport in the hands of its owner, the peer layer,     *)
(* which reads and writes messages and, once a call has failed, closes     *)
(* the transport with the error.  An attacker can flip a bit of a frame    *)
(* from I to R.                                                            *)
(***************************************************************************)
\* a ReadMsg or WriteMsg call on the open transport of side s has failed
Failed(s) ==
  /\ pc[s] = "done"
  /\ \/ lastR[s].called /\ lastR[s].err # "none"
     \/ lastW[s].called /\ lastW[s].err # "none"

\* the owner discards the transport after a failure
OwnerClose(s) == Failed(s) /\ Close(s, "other")

OwnerNext ==
  \/ \E s \in Sides : ~Failed(s) /\ TransportRead(s)
  \/ \E s \in Sides : \E m \in {Msg(1, Const(7, 1)), Msg(1, Data(<<1, 0>>))} :
        ~Failed(s) /\ TransportWrite(s, m)
  \/ \E s \in Sides : OwnerClose(s)
  \/ \E i \in Unread("R") : \E k \in FlipOffsets(Frames("R")[i]) : Flip("R", i, k)

(***************************************************************************)
(* Goroutines calling ReadMsg, WriteMsg and close on one established       *)
(* transport at the same time.  A call takes its mutex, then does its work *)
(* on the codec (TransportRead, TransportWrite or Close), then returns and *)
(* releases the mutex; gor[s][g].mark is the number of calls its log held  *)
(* when the goroutine took the mutex.                                      *)
(***************************************************************************)
\* the mutex a call takes; one that has close take the read mutex
LockOf_CloseReadLock(op) == IF op = "write" THEN "wmu" ELSE "rmu"

LockOf(op) == IF op = "read" THEN "rmu" ELSE "wmu"

\* the work of goroutine g's call on side s is done
Performed(s, g) ==
  IF gor[s][g].op = "read" THEN Len(rcvd[s]) > gor[s][g].mark
  ELSE IF gor[s][g].op = "write" THEN Len(sent[s]) > gor[s][g].mark
  ELSE pc[s] = "closed"

\* t.rmu.Lock() / t.wmu.Lock() at the start of a call
Lock(s, g, op) ==
  /\ gor[s][g].op = "none"
  /\ mu[s][LockOf(op)] = 0
  /\ mu' = [mu EXCEPT ![s][LockOf(op)] = g]
  /\ gor' = [gor EXCEPT ![s][g] =
               [op |-> op, mark |-> IF op = "read" THEN Len(rcvd[s]) ELSE Len(sent[s])]]
  /\ deadline' = [deadline EXCEPT ![s] = IF op = "read" THEN [@ EXCEPT !.rd = "armed"]
                             ELSE IF op = "write" THEN [@ EXCEPT !.wd = "armed"]
                             ELSE @]
  /\ UNCHANGED <<CryptoType, cfg, pc, h, loc, wire, sec, err, rw, sent, rcvd,
                 lastW, lastR, tampered, ph, call, lru>>

\* the deferred Unlock() when the call returns
Unlock(s, g) ==
  /\ gor[s][g].op # "none"
  /\ Performed(s, g)
  /\ mu' = [mu EXCEPT ![s][LockOf(gor[s][g].op)] = 0]
  /\ gor' = [gor EXCEPT ![s][g] = [op |-> "none", mark |-> 0]]
  /\ UNCHANGED <<CryptoType, cfg, pc, h, loc, wire, sec, err, rw, sent, rcvd,
                 lastW, lastR, tampered, ph, deadline, call, lru>>

\* the goroutines are those of side I; its peer writes the frames they read
LocksNext ==
  \/ \E g \in Goroutines : \E op \in {"read", "write", "close"} : Lock("I", g, op)
  \/ \E g \in Goroutines : Unlock("I", g)
  \/ \E g \in Goroutines :
        gor["I"][g].op = "read" /\ ~Performed("I", g) /\ TransportRead("I")
  \/ \E g \in Goroutines : \E m \in AuthMsgs :
        gor["I"][g].op = "write" /\ ~Performed("I", g) /\ TransportWrite("I", m)
  \/ \E g \in Goroutines : \E e \in {"DiscRequested", "other"} :
        gor["I"][g].op = "close" /\ ~Performed("I", g) /\ Close("I", e)
  \/ \E m \in AuthMsgs : FrameWrite("R", m)

SpecLocks == FrameInit /\ [][LocksNext]_vars

(***************************************************************************)
(* Deadlines.  The calls of side I on a connection whose peer stays        *)
(* silent: it answers nothing, and it may stop taking bytes, so that a     *)
(* read of I finds nothing and a write of I may block.  A blocked read or  *)
(* write returns the timeout error once its deadline has expired, and a    *)
(* read or write begun after the deadline has expired returns it at once;  *)
(* with no deadline it stays blocked.  Side R is a transport that waits    *)
(* for the first packet of a peer that never sends one.  The calls of I    *)
(* are those of one goroutine, goroutine 1.                                *)
(***************************************************************************)
\* a read (d = "rd") or a write (d = "wd") of side s is in progress or about
\* to begin: in doEncHandshake the initiator at "start" writes and every
\* other position reads
Waiting(s, d) ==
  IF d = "wd"
  THEN \/ s = "I" /\ pc[s] = "start"
       \/ ph[s].w = "running"
       \/ \E g \in Goroutines : gor[s][g].op \in {"write", "closeSend"} /\ ~Performed(s, g)
  ELSE \/ s = "R" /\ pc[s] = "start"
       \/ pc[s] = "readResp"
       \/ ph[s].pc = "reading"
       \/ \E g \in Goroutines : gor[s][g].op = "read" /\ ~Performed(s, g)

\* time passes beyond a deadline of side s that a read or write waits on
Expire(s, d) ==
  /\ Waiting(s, d)
  /\ deadline[s][d] = "armed"
  /\ deadline' = [deadline EXCEPT ![s][d] = "expired"]
  /\ UNCHANGED <<CryptoType, cfg, pc, h, loc, wire, sec, err, rw, sent, rcvd,
                 lastW, lastR, tampered, mu, gor, ph, call, lru>>

\* doEncHandshake: the write of the auth packet (the initiator at "start")
\* or the read it is blocked in returns the timeout error
HSTimeout(s) ==
  /\ pc[s] \in {"start", "readResp"}
  /\ \E d \in {"rd", "wd"} : Waiting(s, d) /\ deadline[s][d] = "expired"
  /\ Fail(s, "timeout")
  /\ UNCHANGED <<CryptoType, cfg, h, loc, wire, frLog>>

\* doProtoHandshake: the Send of the goroutine returns the timeout error
ProtoSendTimeout(s) ==
  /\ ph[s].w = "running"
  /\ deadline[s].wd = "expired"
  /\ ph' = [ph EXCEPT ![s].w = "wrote", ![s].wres = "timeout"]
  /\ UNCHANGED <<CryptoType, cfg, pc, h, loc, wire, sec, err, rw, sent, rcvd,
                 lastW, lastR, tampered, mu, gor, deadline, call, lru>>

\* doProtoHandshake: readProtocolHandshake returns the timeout error
ProtoTimeout(s) ==
  /\ ph[s].pc = "reading"
  /\ deadline[s].rd = "expired"
  /\ ph' = [ph EXCEPT ![s].pc = "read", ![s].rerr = "timeout"]
  /\ UNCHANGED <<CryptoType, cfg, pc, h, loc, wire, sec, err, rw, sent, rcvd,
                 lastW, lastR, tampered, mu, gor, deadline, call, lru>>

\* rlpx.ReadMsg of goroutine g: t.rw.ReadMsg() returns the timeout error
ReadTimeout(s, g) ==
  /\ gor[s][g].op = "read" /\ ~Performed(s, g)
  /\ deadline[s].rd = "expired"
  /\ rcvd' = [rcvd EXCEPT ![s] = Append(@, [msg |-> NoMsg, err |-> "timeout"])]
  /\ lastR' = [lastR EXCEPT ![s] = [called |-> TRUE, err |-> "timeout", msg |-> NoMsg,
                                    before |-> rw[s], taken |-> Z, input |-> <<>>]]
  /\ UNCHANGED <<CryptoType, hsVars, wire, err, rw, sent, lastW, tampered>>

\* rlpx.WriteMsg of goroutine g: t.rw.WriteMsg(msg) returns the timeout error
WriteTimeout(s, g, m) ==
  /\ gor[s][g].op = "write" /\ ~Performed(s, g)
  /\ deadline[s].wd = "expired"
  /\ sent' = [sent EXCEPT ![s] = Append(@, [msg |-> m, err |-> "timeout", frame |-> <<>>])]
  /\ lastW' = [lastW EXCEPT ![s] = [called |-> TRUE, err |-> "timeout", msg |-> m,
                                    before |-> rw[s], out |-> <<>>]]
  /\ UNCHANGED <<CryptoType, hsVars, wire, err, rw, rcvd, lastR, tampered>>

\* rlpx.close of goroutine g with a disconnect reason: SetWriteDeadline has
\* succeeded and the SendItems that follows it is blocked
CloseBlocked(s, g) ==
  /\ gor[s][g].op = "close" /\ ~Performed(s, g)
  /\ rw[s].live
  /\ gor' = [gor EXCEPT ![s][g].op = "closeSend"]
  /\ deadline' = [deadline EXCEPT ![s].wd = "armed"]
  /\ UNCHANGED <<CryptoType, cfg, pc, h, loc, wire, sec, err, rw, sent, rcvd,
                 lastW, lastR, tampered, mu, ph, call, lru>>

\* the blocked SendItems of close returns the timeout error, and close goes
\* on to t.fd.Close()
CloseTimeout(s, g) ==
  /\ gor[s][g].op = "closeSend"
  /\ deadline[s].wd = "expired"
  /\ pc' = [pc EXCEPT ![s] = "closed"]
  /\ gor' = [gor EXCEPT ![s][g].op = "close"]
  /\ UNCHANGED <<CryptoType, cfg, h, loc, wire, sec, err, rw, sent, rcvd,
                 lastW, lastR, tampered, mu, ph, deadline, call, lru>>

\* a call of ReadMsg, WriteMsg or close by goroutine g begins, on a
\* transport whose handshakes are over
Call(s, g) ==
  /\ pc[s] = "done" /\ ph[s].pc = "returned"
  /\ \E op \in {"read", "write", "close"} :
       /\ op = "read" => ReadErrors(s) < MaxReadErrors
       /\ op = "write" => Calls(s) < MaxFrames
       /\ Lock(s, g, op)

\* the passing of time and the steps that end a blocked call of side s
DeadlineStep(s) ==
  \/ \E d \in {"rd", "wd"} : Expire(s, d)
  \/ HSTimeout(s)
  \/ ProtoSendTimeout(s)
  \/ ProtoDeliver(s)
  \/ ProtoTimeout(s)
  \/ ProtoReturn(s)
  \/ \E g \in Goroutines : ReadTimeout(s, g)
  \/ \E g \in Goroutines : WriteTimeout(s, g, Msg(1, Const(7, 1)))
  \/ \E g \in Goroutines : CloseTimeout(s, g)
  \/ \E g \in Goroutines : Unlock(s, g)

\* close of goroutine g goes on after taking the mutex: it ends without
\* blocking, or it blocks in the send of the disconnect reason
CloseStep(s, g) ==
  \/ gor[s][g].op = "close" /\ ~Performed(s, g)
       /\ \E e \in {"DiscRequested", "other"} : Close(s, e)
  \/ CloseBlocked(s, g)

DeadlineNext ==
  \/ \E s \in Sides : DeadlineStep(s)
  \/ deadline["I"].wd # "expired" /\ InitiatorStart
  \/ ProtoStart("I")
  \/ deadline["I"].wd # "expired" /\ ProtoSend("I")
  \/ Call("I", 1)
  \/ /\ gor["I"][1].op = "write" /\ ~Performed("I", 1)
     /\ deadline["I"].wd # "expired"
     /\ TransportWrite("I", Msg(1, Const(7, 1)))
  \/ CloseStep("I", 1)

\* the clock runs on, and every goroutine that can take a step of its own
\* takes it in the end
DeadlineFairness ==
  /\ \A s \in Sides : \A d \in {"rd", "wd"} : WF_vars(Expire(s, d))
  /\ \A s \in Sides : WF_vars(HSTimeout(s))
  /\ WF_vars(ProtoSendTimeout("I")) /\ WF_vars(ProtoDeliver("I"))
  /\ WF_vars(ProtoTimeout("I")) /\ WF_vars(ProtoReturn("I"))
  /\ WF_vars(ReadTimeout("I", 1))
  /\ WF_vars(WriteTimeout("I", 1, Msg(1, Const(7, 1))))
  /\ WF_vars(CloseStep("I", 1))
  /\ WF_vars(CloseTimeout("I", 1))
  /\ WF_vars(Unlock("I", 1))

SpecDeadline == LifeInit /\ [][DeadlineNext]_vars /\ DeadlineFairness

SpecOwner == FrameInit /\ [][OwnerNext]_vars /\ \A s \in Sides : WF_vars(OwnerClose(s))

(***************************************************************************)
(* Claims about the encryption handshake, checked under SpecHS.            *)
(***************************************************************************)
Returned(s) == pc[s] = "done" /\ sec[s].ok

\* C1: when initiatorEncHandshake and receiverEncHandshake both return
\* Secrets from the same run, the two sides hold the same AES key and the
\* same MAC key, the initiator's EgressMAC seed state is the receiver's
\* IngressMAC seed state, and the initiator's IngressMAC seed state is the
\* receiver's EgressMAC seed state.
C1_SecretsAgree ==
  (Returned("I") /\ Returned("R")) =>
     /\ sec["I"].AES = sec["R"].AES
     /\ sec["I"].MAC = sec["R"].MAC
     /\ sec["I"].EgressMAC = sec["R"].IngressMAC
     /\ sec["I"].IngressMAC = sec["R"].EgressMAC

C1_Witness ==
  /\ Returned("I") /\ Returned("R")
  /\ sec["I"].AES # <<>>
  /\ sec["I"].EgressMAC # sec["I"].IngressMAC
  /\ cfg["I"].cert # NoCert

\* C2: the Secrets a side returns are the reference derivation over the
\* values of the run: ecdhe = ECDH(local ephemeral, remote ephemeral),
\* shared = H(ecdhe || H(respNonce || initNonce)), AES = H(ecdhe || shared),
\* MAC = H(ecdhe || AES), seed1 = the hash state after XOR(MAC, respNonce)
\* and the raw auth packet, seed2 = the hash state after XOR(MAC, initNonce)
\* and the raw auth-response packet; the initiator has Egress = seed1 and
\* Ingress = seed2, the receiver Egress = seed2 and Ingress = seed1.
RefH(b) == IF CryptoType = "P256" THEN Blob(<<"H", "keccak256", b>>, 32)
           ELSE IF CryptoType = "SM2" THEN Blob(<<"H", "sm3", b>>, 32)
           ELSE <<>>
RefEcdhe(s) == Blob(<<"dh", {h[s].randomPrivKey, h[s].remoteRandomPub[2]}>>, 32)
RefShared(s) == RefH(Cat(RefEcdhe(s), RefH(Cat(h[s].respNonce, h[s].initNonce))))
RefAES(s) == RefH(Cat(RefEcdhe(s), RefShared(s)))
RefMAC(s) == RefH(Cat(RefEcdhe(s), RefAES(s)))
RefSeed1(s) == Cat(xor(RefMAC(s), h[s].respNonce), loc[s].authPacket)
RefSeed2(s) == Cat(xor(RefMAC(s), h[s].initNonce), loc[s].authRespPacket)
C2_ReferenceDerivation ==
  \A s \in Sides :
    Returned(s) =>
      /\ sec[s].AES = RefAES(s)
      /\ sec[s].MAC = RefMAC(s)
      /\ sec[s].EgressMAC = IF s = "I" THEN RefSeed1(s) ELSE RefSeed2(s)
      /\ sec[s].IngressMAC = IF s = "I" THEN RefSeed2(s) ELSE RefSeed1(s)
      /\ loc[s].authPacket = loc["I"].authPacket
      /\ h[s].initNonce = h["I"].initNonce
      /\ (Returned("R") => /\ loc[s].authRespPacket = loc["R"].authRespPacket
                           /\ h[s].respNonce = h["R"].respNonce)

C2_Witness ==
  /\ Returned("I") /\ Returned("R")
  /\ sec["R"].MAC # <<>>
  /\ h["R"].initNonce # <<>> /\ h["R"].respNonce # <<>>
  /\ sec["R"].EgressMAC # sec["R"].IngressMAC

\* C10: when the version carried in the auth message or in the auth
\* response differs from the version constant of the side that receives it,
\* the handshake fails with a version error and Secrets are produced on
\* neither side.
\* A side has received the peer's handshake message once it has read and
\* decrypted it.
Received(s) == pc[s] \in {"readCert", "done", "failed"} /\ err[s] \notin {"decrypt", "eof"}
VersionsDiffer == cfg["I"].ver # cfg["R"].ver
C10_Original ==
  \A s \in Sides :
    (Received(s) /\ VersionsDiffer) =>
       /\ pc[s] = "failed" /\ err[s] = "version"
       /\ ~sec["I"].ok /\ ~sec["R"].ok

\* C10 as amended: with differing versions both sides fail and neither
\* produces Secrets; the initiator's error is the version error; the
\* receiver's error is the version error unless handleAuthMsg or the
\* certificate-size check, which both run before the version check, has
\* already failed.
EarlierReceiverErrors == {"key", "sig", "certMissing", "certSize"}
C10_Amended ==
  VersionsDiffer =>
     /\ ~sec["I"].ok /\ ~sec["R"].ok
     /\ pc["I"] # "done" /\ pc["R"] # "done"
     /\ Received("I") => (pc["I"] = "failed" /\ err["I"] = "version")
     /\ Received("R") => /\ pc["R"] = "failed"
                         /\ err["R"] \in EarlierReceiverErrors \cup {"version"}
                         /\ (err["R"] = "version") <=>
                              /\ CryptoType # "S256"
                              /\ \/ cfg["R"].cert = NoCert
                                 \/ /\ Uint16(CertLen(cfg["I"])) # 0
                                    /\ Uint16(CertLen(cfg["R"])) = Uint16(CertLen(cfg["I"]))

C10_Witness ==
  /\ VersionsDiffer
  /\ Received("I") /\ err["I"] = "version"
  /\ Received("R") /\ err["R"] = "version"

\* the side is configured with a non-empty local certificate
Binding(s) == cfg[s].cert # NoCert
\* the side has read the peer's certificate bytes into buf
GotCert(s) == loc[s].buf # <<>>

\* C11: with a non-empty local certificate, a side returns Secrets only if
\* the certificate bytes it received passed authority verification and the
\* key embedded in them is the remote static key of the handshake
\* (Secrets.Remote); a received certificate that is authority-valid but
\* embeds another key makes the side fail with the identity-mismatch error
\* and leaves it without Secrets.
C11_CertBinding ==
  \A s \in Sides :
    Binding(s) =>
      /\ Returned(s) =>
           /\ GotCert(s)
           /\ VerifyCert(loc[s].buf)
           /\ FromCertBytesToPubKey(loc[s].buf) = sec[s].Remote
      /\ (/\ GotCert(s)
          /\ VerifyCert(loc[s].buf)
          /\ FromCertBytesToPubKey(loc[s].buf) # h[s].remote) =>
           /\ pc[s] = "failed"
           /\ err[s] = "certIdentity"
           /\ sec[s] = NoSecrets

C11_Witness ==
  /\ Binding("I") /\ Binding("R")
  /\ Returned("R") /\ FromCertBytesToPubKey(loc["R"].buf) = sec["R"].Remote
  /\ pc["I"] = "failed" /\ err["I"] = "certIdentity"
  /\ VerifyCert(loc["I"].buf)

\* the cert-size advertised in the handshake message the side received
Advertised(s) ==
  IF s = "R" THEN Decrypt(cfg["R"].prv, loc["I"].authPacket).CertSize
  ELSE Decrypt(cfg["I"].prv, loc["R"].authRespPacket).CertSize
\* the version carried in the handshake message the side received
PeerVersion(s) ==
  IF s = "R" THEN Decrypt(cfg["R"].prv, loc["I"].authPacket).Version
  ELSE Decrypt(cfg["I"].prv, loc["R"].authRespPacket).Version
\* the side has passed its certificate to conn.Write
WroteCert(s) == \E i \in 1..Len(loc[s].written) : loc[s].written[i] = cfg[s].cert
\* handleAuthMsg / handleAuthResp accepts the message the side received
Handled(s) ==
  IF s = "R" THEN CryptoType # "S256" ELSE PeerVersion(s) = cfg[s].ver

\* C12: a side configured with a non-empty local certificate fails the
\* handshake with the certificate-missing error when the peer's handshake
\* message advertises cert-size 0; it then neither writes nor reads any
\* certificate bytes and produces no Secrets.
C12_Original ==
  \A s \in Sides :
    (Binding(s) /\ Received(s) /\ Advertised(s) = 0) =>
       /\ pc[s] = "failed" /\ err[s] = "certMissing"
       /\ ~WroteCert(s) /\ ~GotCert(s)
       /\ sec[s] = NoSecrets

\* C12 as amended: such a side fails, writes and reads no certificate bytes
\* and produces no Secrets; its error is the certificate-missing error
\* unless handleAuthMsg (on the receiver) or handleAuthResp (on the
\* initiator), which run before the cert-size check, has already failed.
C12_Amended ==
  \A s \in Sides :
    (Binding(s) /\ Received(s) /\ Advertised(s) = 0) =>
       /\ pc[s] = "failed"
       /\ ~WroteCert(s) /\ ~GotCert(s)
       /\ sec[s] = NoSecrets
       /\ IF Handled(s) THEN err[s] = "certMissing"
          ELSE err[s] = (IF s = "R" THEN "sig" ELSE "version")

C12_Witness ==
  /\ Binding("I") /\ Received("I") /\ Advertised("I") = 0
  /\ err["I"] = "certMissing"
  /\ Returned("R")

\* C13: a side configured with a non-empty local certificate, whose
\* handling of the peer's handshake message has reached the cert-size check
\* with an advertised non-zero cert-size that differs from the length of the
\* local certificate, fails with the certificate-size-mismatch error, has
\* written and read no certificate bytes and has no Secrets; and when both
\* sides are configured with certificates and both return Secrets, the two
\* certificates have the same length.
C13_SizeMismatch ==
  /\ \A s \in Sides :
       (/\ Binding(s) /\ Received(s) /\ Handled(s)
        /\ Advertised(s) # 0
        /\ Advertised(s) # CertLen(cfg[s])) =>
          /\ pc[s] = "failed" /\ err[s] = "certSize"
          /\ ~WroteCert(s) /\ ~GotCert(s)
          /\ sec[s] = NoSecrets
  /\ (Binding("I") /\ Binding("R") /\ Returned("I") /\ Returned("R")) =>
       CertLen(cfg["I"]) = CertLen(cfg["R"])

\* the number of bytes the read a side is in asks for
NeedBytes(s) ==
  IF pc[s] = "readCert" THEN Big(loc[s].peerCertSize)
  ELSE IF s = "I" THEN Big(encAuthRespLen) ELSE Big(encAuthMsgLen)
\* the side is in a read that the bytes in flight towards it do not satisfy
InRead(s) ==
  /\ pc[s] \in {"start", "readResp", "readCert"}
  /\ ~(s = "I" /\ pc[s] = "start")
  /\ BLt(BLen(wire[s]), NeedBytes(s))
\* on a connection whose writes complete only when the peer reads, the side
\* is in a write for as long as bytes it wrote are unread
InWrite(s) == wire[Peer(s)] # <<>>

\* C14: for every combination of certificate configurations, the handshake
\* never reaches a state in which both sides are blocked in a read with no
\* bytes in flight that would satisfy either, nor one in which both sides
\* are in a write the peer has not consumed: at most one side waits on the
\* other.
C14_NoMutualBlock ==
  /\ ~(InRead("I") /\ InRead("R"))
  /\ ~(InWrite("I") /\ InWrite("R"))

C14_Witness ==
  /\ Binding("I") /\ Binding("R")
  /\ pc["I"] = "readCert" /\ pc["R"] = "readCert"
  /\ InWrite("I") /\ ~InRead("R")

\* the receiver has handled the auth message and written its auth response
Responded == loc["R"].authRespPacket # <<>>
\* the auth message the receiver decrypted
AuthMsgRead == Decrypt(cfg["R"].prv, loc["R"].authPacket)
\* the key that SigToPub yields from the signature of that message over
\* XOR(static shared secret, nonce)
KeyFromSignature ==
  SigToPub(xor(staticSharedSecret(h["R"], cfg["R"].prv), AuthMsgRead.Nonce),
           AuthMsgRead.Signature)
\* the key a packet is encrypted to
EncryptedTo(packet) == packet[1].x[2]

\* C16: on the receiving side the remote static public key is the key
\* recovered from the signature over XOR(staticSecret, nonce), not a
\* separate field of the auth message, and the auth response is encrypted
\* to that recovered key.
C16_Original ==
  Responded =>
    /\ h["R"].remote = KeyFromSignature
    /\ EncryptedTo(loc["R"].authRespPacket) = KeyFromSignature

\* C16 as amended: the receiver takes the remote static public key from the
\* InitiatorPubkey field of the auth message and encrypts the auth response
\* to it; what it obtains from the signature over XOR(staticSecret, nonce)
\* is the initiator's ephemeral public key.
C16_Amended ==
  Responded =>
    /\ h["R"].remote = importPublicKey(AuthMsgRead.InitiatorPubkey)
    /\ sec["R"].ok => sec["R"].Remote = importPublicKey(AuthMsgRead.InitiatorPubkey)
    /\ EncryptedTo(loc["R"].authRespPacket) = h["R"].remote
    /\ h["R"].remoteRandomPub = KeyFromSignature
    /\ KeyFromSignature = Pub(h["I"].randomPrivKey)

C16_Witness ==
  /\ Responded /\ Returned("R")
  /\ h["R"].remote = Pub(StaticI)
  /\ KeyFromSignature # h["R"].remote

\* the handshake packets of n bytes among what side s has written
PacketsWritten(s, n) ==
  {i \in 1..Len(loc[s].written) :
     /\ Len(loc[s].written[i]) = 1
     /\ loc[s].written[i][1].x[1] = "ecies"
     /\ loc[s].written[i][1].n = Big(n)}
HandshakeErrors ==
  {"eof", "decrypt", "key", "sig", "version",
   "certMissing", "certSize", "certInvalid", "certKey", "certIdentity"}

\* C18: when doEncHandshake fails at any step it returns the error and a
\* nil remote key, the frame codec t.rw stays uninitialised, and there is no
\* second attempt: a side never writes more than one auth message nor more
\* than one auth response.
C18_FailureIsFinal ==
  \A s \in Sides :
    /\ Cardinality(PacketsWritten(s, encAuthMsgLen)) <= 1
    /\ Cardinality(PacketsWritten(s, encAuthRespLen)) <= 1
    /\ pc[s] = "failed" =>
         /\ err[s] \in HandshakeErrors
         /\ sec[s] = NoSecrets /\ sec[s].Remote = NoKey
         /\ rw[s] = NoFrameRW

C18_Witness ==
  /\ pc["R"] = "failed" /\ err["R"] = "version"
  /\ Cardinality(PacketsWritten("R", encAuthRespLen)) = 1
  /\ pc["I"] = "failed" /\ err["I"] = "version"
  /\ Cardinality(PacketsWritten("I", encAuthMsgLen)) = 1
  /\ rw["I"] = NoFrameRW /\ rw["R"] = NoFrameRW

(***************************************************************************)
(* Claims about the frame codec, checked under SpecFrame.                  *)
(***************************************************************************)
\* what the frame of message m holds after the header, in bytes, on a codec
\* in state f: the type tag and the payload as it is framed (compressed when
\* f compresses and the message is one it would compress)
FramedPayload(f, m) ==
  IF f.snappy /\ BLe(m.Size, Big(maxUint24)) THEN SnappyEncode(m.Payload) ELSE m.Payload
FrameSum(f, m) == BAdd(BLen(EncodeCode(m.Code)), BLen(FramedPayload(f, m)))
TooLargeErrors == {"overflowsUint24", "plainTooLarge"}

\* C3: every message that WriteMsg accepted on one side is returned by the
\* successive ReadMsg calls of the other side with the same code and the same
\* payload, in the same order, and nothing else is returned.
C3_RoundTrip ==
  \A d \in Sides : \A k \in 1..Len(rcvd[d]) :
    /\ k <= Len(Accepted(Peer(d)))
    /\ rcvd[d][k] = [msg |-> Accepted(Peer(d))[k].msg, err |-> "none"]

C5_TooLargeRejected ==
  \A s \in Sides :
    lastW[s].called /\ BLt(Big(maxUint24), FrameSum(lastW[s].before, lastW[s].msg))
      => /\ lastW[s].err \in TooLargeErrors
         /\ lastW[s].out = <<>>
         /\ rw[s].enc = lastW[s].before.enc
         /\ rw[s].egressMAC = lastW[s].before.egressMAC

\* the 16 header bytes of the frame of message m before they are encrypted
PlainHeader(f, m) ==
  Cat(Cat(Bytes(putInt24(Uint32(FrameSum(f, m)))), Bytes(zeroHeader)), Const(0, 10))
\* the header MAC computation that C9 describes, over 16 header bytes hdr:
\* the digest of the accumulator encrypted with the whitening cipher, XORed
\* with hdr, absorbed, and the first 16 bytes of the new digest
RefHeaderMAC(mac, block, hdr) ==
  LET digest == Relative(mac, HashSum("keccak256", mac))
      absorbed == HashWrite(mac, xor(BlockEncrypt(block, digest), Relative(mac, hdr)))
  IN TakeB(HashSum("keccak256", absorbed), Big(16))

\* C9 as stated: the header MAC that WriteMsg emits is the reference
\* computation over the plaintext header bytes.
C9_Original ==
  \A s \in Sides :
    lastW[s].called /\ lastW[s].err = "none"
      => SliceB(lastW[s].out, Big(16), Big(32))
           = RefHeaderMAC(lastW[s].before.egressMAC, lastW[s].before.macCipher,
                          PlainHeader(lastW[s].before, lastW[s].msg))

\* C9 amended: the header MAC that WriteMsg emits is the reference
\* computation over the encrypted header bytes, the 16 bytes that precede it
\* on the wire, and ReadMsg passes the header MAC check exactly when the MAC
\* it received is that computation over the encrypted header it received.
C9_Amended ==
  \A s \in Sides :
    /\ lastW[s].called /\ lastW[s].err = "none"
         => /\ TakeB(lastW[s].out, Big(16))
                 = XORKeyStream(lastW[s].before.aes, lastW[s].before.enc,
                                PlainHeader(lastW[s].before, lastW[s].msg))
            /\ SliceB(lastW[s].out, Big(16), Big(32))
                 = RefHeaderMAC(lastW[s].before.egressMAC, lastW[s].before.macCipher,
                                TakeB(lastW[s].out, Big(16)))
    /\ lastR[s].called
         => (lastR[s].err # "badHeaderMAC"
               <=> SliceB(lastR[s].input, Big(16), Big(32))
                     = RefHeaderMAC(lastR[s].before.ingressMAC, lastR[s].before.macCipher,
                                    TakeB(lastR[s].input, Big(16))))

C9_Witness ==
  /\ lastW["I"].called /\ lastW["I"].err = "none"
  /\ lastR["R"].called /\ lastR["R"].err = "none"
  /\ lastR["R"].input = lastW["I"].out

(***************************************************************************)
(* Claims about the frame codec under tampering, checked under SpecTamper. *)
(***************************************************************************)
MACErrors == {"badHeaderMAC", "badFrameMAC"}

\* C6: a ReadMsg whose input holds a byte with a flipped bit returns a MAC
\* mismatch and no message; a ReadMsg that returns a message read no such
\* byte.
C6_BitFlipDetected ==
  \A d \in Sides :
    lastR[d].called
      => /\ HasFlip(lastR[d].input) => lastR[d].err \in MACErrors /\ lastR[d].msg = NoMsg
         /\ lastR[d].err = "none" => ~HasFlip(lastR[d].input)

C6_Witness ==
  /\ lastR["R"].called
  /\ HasFlip(lastR["R"].input)
  /\ lastR["R"].err = "badFrameMAC"
  /\ Len(Delivered("R")) = 1

\* C7: on a stream whose frames are replayed, swapped or omitted but not
\* altered, ReadMsg accepts a frame as the k-th frame only if it is the k-th
\* frame the peer wrote and every frame before it was accepted; a read of
\* anything else fails with a MAC mismatch; an untouched stream is read
\* without error.
C7_CausalChain ==
  \A d \in Sides :
    tampered[d].flips = 0
      => /\ \A k \in 1..Len(rcvd[d]) :
              rcvd[d][k].err = "none"
                => /\ \A j \in 1..k : rcvd[d][j].err = "none"
                   /\ k <= Len(Frames(d))
                   /\ rcvd[d][k].msg = Accepted(Peer(d))[k].msg
         /\ lastR[d].called /\ lastR[d].err = "none"
              => lastR[d].input = Frames(d)[Len(rcvd[d])]
         /\ lastR[d].called /\ lastR[d].err # "none" => lastR[d].err \in MACErrors
         /\ lastR[d].called /\ ~tampered[d].moved => lastR[d].err = "none"

C7_Witness ==
  /\ tampered["R"].moved
  /\ Len(Delivered("R")) = 1
  /\ lastR["R"].called
  /\ lastR["R"].err = "badHeaderMAC"

\* C8: when the header MAC fails, ReadMsg has taken the 32 header bytes and
\* nothing more and has not advanced the ingress stream cipher; when the
\* frame MAC fails, the ingress stream cipher has advanced over the header
\* only and no message is returned.
C8_VerifyBeforeDecrypt ==
  \A d \in Sides :
    lastR[d].called
      => /\ lastR[d].err = "badHeaderMAC"
              => /\ lastR[d].taken = Big(32)
                 /\ rw[d].dec = lastR[d].before.dec
                 /\ lastR[d].msg = NoMsg
         /\ lastR[d].err = "badFrameMAC"
              => /\ rw[d].dec = BAdd(lastR[d].before.dec, Big(16))
                 /\ lastR[d].msg = NoMsg

C8_Witness ==
  /\ lastR["R"].called
  /\ lastR["R"].err = "badFrameMAC"
  /\ rw["R"].dec = BAdd(lastR["R"].before.dec, Big(16))
  /\ BLt(Big(32), lastR["R"].taken)
(***************************************************************************)
(* Claims about authentication, checked under SpecAuth.                    *)
(***************************************************************************)
\* the static key the honest side takes its peer to hold
PeerKey(s) == IF s = "I" THEN cfg["I"].dial ELSE sec["R"].Remote

\* C15: the channel is authenticated. When the ReadMsg of an honest
\* receiver whose handshake returned the remote static key K, or of an
\* honest initiator that dialled K, has accepted a frame, the party at the
\* other end holds the private key of K: against an attacker whose only
\* static private key is that of StaticX, K is the public key of StaticX.
\* This holds in every mode of the crypto suite.
C15_Authenticated ==
  \A s \in Sides :
    (Honest(s) /\ Delivered(s) # <<>>) => PeerKey(s) = Pub(StaticX)

C15_Witness ==
  /\ CryptoType = "SM2"
  /\ Honest("R") /\ rw["R"].live /\ rw["I"].live
  /\ PeerKey("R") = Pub(StaticI)
  /\ Accepted("I") # <<>>
  /\ lastR["R"].called /\ lastR["R"].err = "badHeaderMAC"

\* the first packet the peer of s wrote, which s reads as a handshake message
FirstPacket(s) == loc[Peer(s)].written[1]
\* s has read that packet
ReadFirst(s) ==
  /\ loc[Peer(s)].written # <<>>
  /\ pc[s] \notin (IF s = "I" THEN {"start", "readResp"} ELSE {"start"})

\* C17: a handshake packet that decrypts but whose plaintext is not a valid
\* encoding of the expected message makes the handshake return the
\* malformed-message error and no Secrets, without a panic; a packet that
\* fails decryption makes it return the decryption error.
C17_MalformedIsError ==
  \A s \in Sides :
    (Honest(s) /\ ReadFirst(s)) =>
       /\ (/\ CanDecrypt(cfg[s].prv, FirstPacket(s))
           /\ decodePlainPanics(Decrypt(cfg[s].prv, FirstPacket(s)))) =>
             /\ pc[s] = "failed" /\ err[s] = "malformed"
             /\ sec[s] = NoSecrets
       /\ ~CanDecrypt(cfg[s].prv, FirstPacket(s)) =>
             /\ pc[s] = "failed" /\ err[s] = "decrypt"
             /\ sec[s] = NoSecrets

(***************************************************************************)
(* Claims about two connections, checked under SpecTwo.                    *)
(***************************************************************************)
\* the nonce and the ephemeral key a side generated in a handshake hh
OwnNonce(s, hh) == IF s = "I" THEN hh.initNonce ELSE hh.respNonce
\* the random values of the second handshake all differ from the first's
FreshRandomness ==
  \A s \in Sides :
    /\ OwnNonce(s, h[s]) # OwnNonce(s, cfg[s].past.h)
    /\ h[s].randomPrivKey # cfg[s].past.h.randomPrivKey
SessionKeys(sc) == {sc.AES, sc.MAC}

\* C19: two handshakes between the same two static keys each draw their own
\* nonces and ephemeral keys on both sides (makeAuthMsg, handleAuthMsg,
\* makeAuthResp), and when the values drawn by the second differ from those
\* of the first, the Secrets of the second share neither the AES key nor
\* the MAC key with the Secrets of the first.
C19_SessionUnique ==
  \A a \in Sides : \A b \in Sides :
    (cfg[a].past.sec.ok /\ Returned(b)) =>
       /\ h[b].randomPrivKey \in EphKeys(b) /\ OwnNonce(b, h[b]) \in Nonces(b)
       /\ cfg[a].past.h.randomPrivKey \in EphKeys(a)
       /\ OwnNonce(a, cfg[a].past.h) \in Nonces(a)
       /\ FreshRandomness => SessionKeys(sec[b]) \cap SessionKeys(cfg[a].past.sec) = {}

C19_Witness ==
  /\ \A s \in Sides : cfg[s].past.sec.ok /\ Returned(s)
  /\ FreshRandomness
  /\ sec["I"].AES # <<>> /\ sec["I"].AES = sec["R"].AES
  /\ sec["I"].AES # cfg["I"].past.sec.AES

(***************************************************************************)
(* Claims about the life of a transport, checked under SpecLife.           *)
(***************************************************************************)
LastOf(q) == q[Len(q)]

\* C20: once close has been called on a transport, in whatever phase it
\* was, every later ReadMsg and WriteMsg call on it returns an error, and
\* no operation brings it back to a handshaking or an established state.
C20_ClosedIsTerminal ==
  [][\A s \in Sides :
       pc[s] = "closed" =>
         /\ pc'[s] = "closed"
         /\ rcvd'[s] # rcvd[s] => LastOf(rcvd'[s]).err # "none"
         /\ sent'[s] # sent[s] => LastOf(sent'[s]).err # "none"]_vars

InCodec(s, ops) == {g \in Goroutines : gor[s][g].op \in ops /\ ~Performed(s, g)}

\* C22: on an established transport at most one goroutine is inside the
\* frame writer (WriteMsg, or close sending its disconnect frame) and at
\* most one inside the frame reader; a reader and a writer can be inside
\* at the same time.
C22_Serialized ==
  \A s \in Sides :
    /\ Cardinality({g \in Goroutines : gor[s][g].op \in {"write", "close"}}) <= 1
    /\ Cardinality({g \in Goroutines : gor[s][g].op = "read"}) <= 1
    /\ \A g \in Goroutines :
         gor[s][g].op # "none" => mu[s][LockOf(gor[s][g].op)] = g

C22_Witness ==
  \E s \in Sides :
    /\ InCodec(s, {"read"}) # {} /\ InCodec(s, {"write"}) # {}
    /\ Peer(s) = "R" /\ wire[s] # <<>>

(***************************************************************************)
(* Claims about the capability handshake, checked under SpecProto.         *)
(***************************************************************************)
\* C23: the goroutine started by doProtoHandshake never blocks on sending
\* its result (the channel has room whenever it is about to send), and
\* doProtoHandshake never returns, with or without an error, while that
\* goroutine has not finished its write and its send.
C23_WriteJoined ==
  \A s \in Sides :
    /\ ph[s].w = "wrote" => Len(ph[s].werr) < 1
    /\ ph[s].pc = "returned" => ph[s].w = "exited" /\ ph[s].werr = <<>>

C23_Witness ==
  \E s \in Sides :
    /\ ph[s].pc = "returned" /\ ph[s].rerr = "DiscProtocolError"
    /\ ph[s].w = "exited" /\ ph[s].wres = "closed"

\* C24: when the read of the peer's message fails, doProtoHandshake returns
\* the read error (the peer's disconnect reason when the peer sent one)
\* whether the write succeeded or not; it returns a write error exactly
\* when the read succeeded and the write failed.
C24_ReadErrorFirst ==
  \A s \in Sides :
    ph[s].pc = "returned" =>
      /\ ph[s].rerr # "none" => ph[s].ret = ph[s].rerr
      /\ ph[s].ret = "writeError" <=> (ph[s].rerr = "none" /\ ph[s].wres # "none")
      /\ ph[s].ret = "none" <=> (ph[s].rerr = "none" /\ ph[s].wres = "none")

C24_Witness ==
  /\ ph["I"].pc = "returned" /\ ph["I"].wres = "closed"
  /\ ph["I"].ret = "DiscProtocolError"
  /\ ph["R"].pc = "idle" /\ pc["R"] = "closed"

\* C25: t.rw.snappy is false until doProtoHandshake returns, is assigned in
\* the step in which doProtoHandshake returns, after its read and its
\* write have completed, to (peer version >= snappyProtocolVersion) on
\* success and stays false on failure, and no later ReadMsg, WriteMsg or
\* close changes it.
C25_SnappyOnce ==
  [][\A s \in Sides :
       /\ ph'[s].pc # "returned" => ~rw'[s].snappy
       /\ (ph[s].pc # "returned" /\ ph'[s].pc = "returned") =>
            /\ ph[s].pc = "read" /\ ph[s].w = "exited"
            /\ rw'[s].snappy = (ph'[s].ret = "none"
                                 /\ ph[s].their >= snappyProtocolVersion)
       /\ rw'[s].snappy # rw[s].snappy =>
            ph[s].pc # "returned" /\ ph'[s].pc = "returned"]_vars

C25_Witness ==
  /\ ph["I"].pc = "returned" /\ rw["I"].snappy /\ sent["I"] # <<>>
  /\ ph["R"].pc = "returned" /\ ph["R"].ret = "none" /\ ~rw["R"].snappy
  /\ pc["R"] = "closed" /\ rcvd["R"] # <<>>

(***************************************************************************)
(* Claims about the MAC states and the stream positions of the two codecs  *)
(* of a connection, checked under SpecFrame.                               *)
(***************************************************************************)
\* the MAC state of a codec that hashes the whole encrypted frame content
\* body at once, starting from the state mac after the header, and then
\* updates the state with its sum, as ReadMsg does
BufferedMAC(mac, cipher, body) ==
  updateMAC(HashWrite(mac, body), cipher, HashSum("keccak256", HashWrite(mac, body))).mac

\* the encrypted frame content in the bytes out of one written frame: what
\* lies between the 32 bytes of header and the 16 bytes of frame MAC
BodyOf(out) == SliceB(out, Big(32), BSub(BLen(out), Big(16)))

\* C27: the egress MAC state after a successful WriteMsg, which absorbed the
\* encrypted type tag, payload and padding one after the other, is the state
\* a codec reaches that hashes the whole encrypted frame content on the wire
\* at once; and when the peer has read every frame a side wrote, the side's
\* egress MAC state equals the peer's ingress MAC state.
C27_StreamingIsBuffered ==
  \A s \in Sides :
    /\ (lastW[s].called /\ lastW[s].err = "none") =>
         rw[s].egressMAC =
           BufferedMAC(updateMAC(lastW[s].before.egressMAC, lastW[s].before.macCipher,
                                 TakeB(lastW[s].out, Big(16))).mac,
                       lastW[s].before.macCipher, BodyOf(lastW[s].out))
    /\ (/\ wire[Peer(s)] = <<>> /\ ReadErrors(Peer(s)) = 0
        /\ Len(Delivered(Peer(s))) = Len(Accepted(s))) =>
         rw[s].egressMAC = rw[Peer(s)].ingressMAC

C27_Witness ==
  /\ Len(Accepted("I")) = 2 /\ Len(Delivered("R")) = 2 /\ wire["R"] = <<>>
  /\ sent["I"][1].msg.Payload = Const(7, 15) /\ sent["I"][2].msg.Payload = <<>>
  /\ rw["I"].egressMAC = rw["R"].ingressMAC
  /\ rw["I"].egressMAC # newRLPXFrameRW(MatchedSecrets["I"]).egressMAC

\* n rounded up to a multiple of 16
RoundUp16(n) == IF n[2] % 16 = 0 THEN n ELSE BAdd(n, Big(16 - (n[2] % 16)))

\* the bytes WriteMsg on codec f encrypts as the payload of msg
WirePayload(f, msg) == IF f.snappy THEN SnappyEncode(msg.Payload) ELSE msg.Payload

\* the frames side s has put on the wire from its k-th accepted call on
RECURSIVE FramesFrom(_, _)
FramesFrom(s, k) ==
  IF k > Len(Accepted(s)) THEN <<>> ELSE Cat(Accepted(s)[k].frame, FramesFrom(s, k + 1))

\* C28: a successful WriteMsg puts 32 + roundUp16(f) + 16 bytes on the wire,
\* f being the size of the type tag plus the size of the payload; a
\* successful ReadMsg takes exactly the bytes of one written frame and
\* advances the ingress stream cipher by the bytes after the header block
\* less the frame MAC; while all reads of a side have succeeded, the bytes
\* it has not read are exactly the frames it has not read, and once it has
\* read them all its stream position equals the writer's.
C28_FrameBytes ==
  \A s \in Sides :
    /\ (lastW[s].called /\ lastW[s].err = "none") =>
         BLen(lastW[s].out) =
           BAdd(RoundUp16(BAdd(BLen(EncodeCode(lastW[s].msg.Code)),
                               BLen(WirePayload(lastW[s].before, lastW[s].msg)))),
                Big(48))
    /\ (lastR[s].called /\ lastR[s].err = "none" /\ ReadErrors(s) = 0) =>
         /\ lastR[s].input = Accepted(Peer(s))[Len(Delivered(s))].frame
         /\ lastR[s].taken = BLen(lastR[s].input)
         /\ rw[s].dec = BAdd(lastR[s].before.dec, BSub(lastR[s].taken, Big(32)))
    /\ ReadErrors(s) = 0 =>
         /\ wire[s] = FramesFrom(Peer(s), Len(Delivered(s)) + 1)
         /\ wire[s] = <<>> => rw[s].dec = rw[Peer(s)].enc

C28_Witness ==
  /\ Len(Delivered("R")) = 2 /\ ReadErrors("R") = 0 /\ wire["R"] = <<>>
  /\ BLen(sent["I"][1].frame) = Big(64) /\ BLen(sent["I"][2].frame) = Big(80)
  /\ rw["R"].dec = rw["I"].enc /\ rw["R"].dec = Big(80)

(***************************************************************************)
(* Claims about decompression, checked under SpecSnappy.                   *)
(***************************************************************************)
\* the payload bytes in the frame that side s read last: those of the
\* message its peer wrote in the call of the same number
ReadBlock(s) ==
  WirePayload(rw[Peer(s)], Accepted(Peer(s))[Len(rcvd[s])].msg)

\* C29: a codec that decompresses answers a frame whose block announces a
\* decoded length above maxUint24 (2^24 - 1, the largest length the cap
\* admits) with the too-large error, whether or not
\* the block can be decoded, and hands out the block as it came; it returns
\* the decoded bytes of every block that announces a length up to maxUint24
\* and can be decoded, and so every message a compressing peer wrote.
C29_DecodedLenChecked ==
  \A s \in Sides :
    (lastR[s].called /\ lastR[s].before.snappy) =>
      /\ (SnappyDecodedLen(ReadBlock(s)).ok
          /\ SnappyDecodedLen(ReadBlock(s)).n > maxUint24) =>
            /\ lastR[s].err = "plainTooLarge"
            /\ lastR[s].msg.Payload = ReadBlock(s)
      /\ (SnappyDecodedLen(ReadBlock(s)).ok
          /\ SnappyDecodedLen(ReadBlock(s)).n <= maxUint24
          /\ SnappyDecode(ReadBlock(s)).ok) =>
            /\ lastR[s].err = "none"
            /\ lastR[s].msg.Payload = SnappyDecode(ReadBlock(s)).data
            /\ lastR[s].msg.Size = Big(SnappyDecodedLen(ReadBlock(s)).n)
      /\ rw[Peer(s)].snappy =>
            /\ lastR[s].err = "none"
            /\ lastR[s].msg = Accepted(Peer(s))[Len(rcvd[s])].msg

C29_Witness ==
  /\ ~rw["I"].snappy /\ Len(rcvd["R"]) = 2
  /\ rcvd["R"][1].err = "none" /\ rcvd["R"][1].msg.Payload = Const(7, 15)
  /\ rcvd["R"][2].err = "plainTooLarge"
  /\ SnappyDecodedLen(ReadBlock("R")).n = maxUint24 + 1
  /\ SnappyDecode(ReadBlock("R")).ok = FALSE

(***************************************************************************)
(* Claims about what the calls on an established transport change,         *)
(* checked under SpecLife.                                                 *)
(***************************************************************************)
\* C30: no ReadMsg, WriteMsg or close on a transport that has a codec
\* changes the AES key or the MAC key of the codec or the secrets of the
\* handshake, the remote static key among them; a call that writes (WriteMsg
\* and the disconnect message of close) leaves the ingress stream position
\* and the ingress MAC as they were, and a call that reads leaves the egress
\* stream position and the egress MAC as they were.
C30_KeysAndDirections ==
  [][\A s \in Sides :
       rw[s].live =>
         /\ rw'[s].aes = rw[s].aes /\ rw'[s].macCipher = rw[s].macCipher
         /\ sec'[s] = sec[s] /\ rw'[s].live
         /\ Len(sent'[s]) > Len(sent[s]) =>
              rw'[s].dec = rw[s].dec /\ rw'[s].ingressMAC = rw[s].ingressMAC
         /\ Len(rcvd'[s]) > Len(rcvd[s]) =>
              rw'[s].enc = rw[s].enc /\ rw'[s].egressMAC = rw[s].egressMAC]_vars

C30_Witness ==
  /\ pc["I"] = "closed" /\ Len(sent["I"]) = 2 /\ sent["I"][2].msg = DiscMsg("DiscRequested")
  /\ sent["I"][1].err = "none" /\ rcvd["R"] # <<>> /\ rcvd["R"][1].err = "none"
  /\ rw["I"].enc = Big(64) /\ rw["I"].dec = Z /\ rw["R"].dec # Z /\ rw["R"].enc = Z
  /\ rw["I"].aes = newRLPXFrameRW(MatchedSecrets["I"]).aes
  /\ sec["I"].Remote = Pub(StaticR)

(***************************************************************************)
(* Claims about termination, checked under SpecDeadline.                   *)
(***************************************************************************)
\* C26: with a peer that stays silent, every call returns: a doEncHandshake
\* that waits for the peer or is about to write the auth packet fails or
\* succeeds, doProtoHandshake returns, and every ReadMsg, WriteMsg and close
\* that has taken its mutex returns and releases it.
C26_CallsReturn ==
  /\ \A s \in Sides : (pc[s] \in {"start", "readResp"}) ~> (pc[s] \in {"failed", "done"})
  /\ \A s \in Sides : (ph[s].pc \in {"reading", "read"}) ~> (ph[s].pc = "returned")
  /\ \A s \in Sides : \A g \in Goroutines :
        (gor[s][g].op # "none") ~> (gor[s][g].op = "none")

C26_Witness ==
  /\ ph["I"].pc = "returned" /\ ph["I"].ret = "timeout" /\ ph["I"].wres = "timeout"
  /\ rcvd["I"] # <<>> /\ rcvd["I"][1].err = "timeout"
  /\ sent["I"] # <<>> /\ sent["I"][1].err = "timeout"
  /\ pc["I"] = "closed" /\ \A g \in Goroutines : gor["I"][g].op = "none"

(***************************************************************************)
(* The signature functions of src/crypto/signature_cgo.go, called on their *)
(* own in each mode of the crypto suite: with digests of 32 bytes, with    *)
(* the keys of three parties, and with signatures that are the output of   *)
(* Sign, its first 65 or 64 bytes, or the [R || S || V] of one party       *)
(* followed by the compressed public key of another.                       *)
(***************************************************************************)
Signers == {StaticI, StaticR, StaticX}
Digests == {Blob(<<"digest", i>>, 32) : i \in 1..2}
RS(sig) == TakeB(sig, Big(64))
SigInputs ==
  UNION {{Sign(d, k), RawSign(d, k), RS(RawSign(d, k))} : d \in Digests, k \in Signers}
  \cup {Cat(RawSign(d, k), CompressPubkey(Pub(k2))) : d \in Digests, k \in {StaticX}, k2 \in Signers}
PubInputs == UNION {{CompressPubkey(Pub(k)), FromECDSAPub(Pub(k))} : k \in Signers}

\* p256.Verify, sm2.Verify (libraries): the [R || S] at the front of the
\* signature was made over the digest with the private key of pub
LibVerify(pub, digestHash, signature) ==
  pub # NoKey /\ RS(signature) = RS(RawSign(digestHash, pub[2]))
\* secp256k1.VerifySignature (library): a signature of 64 bytes, a digest of
\* 32 bytes, a public key in either format
Secp256k1VerifySignature(pubkey, digestHash, signature) ==
  /\ BLen(signature) = Big(64) /\ BLen(digestHash) = Big(32)
  /\ LibVerify(IF BLen(pubkey) = Big(33) THEN DecompressPubkey(pubkey)
               ELSE UnmarshalPubkey(pubkey), digestHash, signature)

\* crypto.VerifySignature
VerifySignature(pubkey, digestHash, signature) ==
  IF BLen(signature) # Big(98) \/ BLen(digestHash) # Big(32) THEN FALSE
  ELSE IF CryptoType \in {"P256", "SM2"}
  THEN IF BLen(pubkey) = Big(33)
       THEN LibVerify(DecompressPubkey(pubkey), digestHash, signature)
       ELSE LibVerify(UnmarshalPubkey(pubkey), digestHash, signature)
  ELSE Secp256k1VerifySignature(pubkey, digestHash, signature)

SigInit ==
  /\ CryptoType \in CryptoTypes
  /\ cfg = [s \in Sides |-> [prv |-> IF s = "I" THEN StaticI ELSE StaticR,
                             dial |-> IF s = "I" THEN Pub(StaticR) ELSE NoKey,
                             ver |-> TaiRLPXVersion, cert |-> NoCert, past |-> NoPast]]
  /\ pc = [s \in Sides |-> "start"]
  /\ h = [s \in Sides |-> NewEncHandshake]
  /\ loc = [s \in Sides |-> NoLoc]
  /\ wire = [s \in Sides |-> <<>>]
  /\ sec = [s \in Sides |-> NoSecrets]
  /\ err = [s \in Sides |-> "none"]
  /\ rw = [s \in Sides |-> NoFrameRW]
  /\ sent = [s \in Sides |-> <<>>]
  /\ rcvd = [s \in Sides |-> <<>>]
  /\ lastW = [s \in Sides |-> NoOutcome]
  /\ lastR = [s \in Sides |-> NoOutcome]
  /\ tampered = [s \in Sides |-> NoTamper]
  /\ NoCalls

Called(c) ==
  /\ call' = c
  /\ UNCHANGED <<CryptoType, cfg, pc, h, loc, wire, sec, err, rw, sent, rcvd, lastW, lastR,
                 tampered, mu, gor, ph, deadline, lru>>

CallSign(digestHash, prv) ==
  Called([fn |-> "Sign", hash |-> digestHash, sig |-> <<>>, key |-> prv,
          res |-> Sign(digestHash, prv)])
CallSigToPub(hash, sig) ==
  Called([fn |-> "SigToPub", hash |-> hash, sig |-> sig, key |-> NoPriv,
          res |-> SigToPub(hash, sig)])
CallVerifySignature(pubkey, digestHash, signature) ==
  Called([fn |-> "VerifySignature", hash |-> digestHash, sig |-> signature, key |-> pubkey,
          res |-> VerifySignature(pubkey, digestHash, signature)])

SigNext ==
  \/ \E d \in Digests, k \in Signers : CallSign(d, k)
  \/ \E d \in Digests, sig \in SigInputs : CallSigToPub(d, sig)
  \/ \E pub \in PubInputs, d \in Digests, sig \in SigInputs : CallVerifySignature(pub, d, sig)

SpecSig == SigInit /\ [][SigNext]_vars

\* C31: SigToPub returns the public key that created the signature.  In
\* every mode, when SigToPub(hash, sig) returns the key P of a party, the
\* [R || S] of sig was made over hash with the private key of P.
C31_SignerRecovered ==
  (call.fn = "SigToPub" /\ call.res \in {Pub(k) : k \in Signers})
    => RS(call.sig) = RS(RawSign(call.hash, call.res[2]))

\* C32: VerifySignature accepts, for a digest of 32 bytes and the public
\* key of the signer in compressed or uncompressed format, the 64-byte
\* [R || S] of a signature over the digest, and the signature that Sign
\* returns in the same mode.
C32_SignedIsVerified ==
  (/\ call.fn = "VerifySignature"
   /\ \E k \in Signers :
        /\ call.key \in {CompressPubkey(Pub(k)), FromECDSAPub(Pub(k))}
        /\ call.sig \in {RS(RawSign(call.hash, k)), Sign(call.hash, k)})
    => call.res = TRUE

\* C33: in the certificate exchange the initiator writes its certificate
\* before it reads the peer's, and the receiver writes its certificate only
\* after it has read the advertised number of bytes and these have passed
\* the authority verification and the key-equality check: the receiver's
\* certificate is never written to a peer whose certificate was not
\* received in full or failed a check.
C33_CertOrder ==
  /\ (pc["I"] = "readCert" \/ GotCert("I")) => WroteCert("I")
  /\ WroteCert("R") =>
       /\ BLen(loc["R"].buf) = Big(loc["R"].peerCertSize)
       /\ IsWholeCert(loc["R"].buf)
       /\ VerifyCert(loc["R"].buf)
       /\ FromCertBytesToPubKey(loc["R"].buf) = h["R"].remote

C33_Witness ==
  /\ WroteCert("I") /\ WroteCert("R")
  /\ GotCert("I") /\ pc["I"] = "done" /\ pc["R"] = "done"

RejectedAuth(reasons) == pc["R"] = "failed" /\ err["R"] \in reasons

\* C39: a receiver that rejects an incoming auth message for any reason
\* (decryption failure, invalid initiator key, signature recovery failure,
\* certificate size missing or mismatched, version mismatch) has written no
\* bytes to the connection.
C39_Original ==
  RejectedAuth({"decrypt", "key", "sig", "certMissing", "certSize", "version"})
    => loc["R"].written = <<>>

\* C39 as amended: a receiver that rejects an incoming auth message for
\* decryption failure, invalid initiator key, signature recovery failure or
\* a certificate size that is missing or mismatched has written no bytes to
\* the connection; the version check comes after the write of the auth
\* response, and a receiver that rejects for version mismatch has written
\* its auth response and nothing else.
C39_Amended ==
  /\ RejectedAuth({"decrypt", "key", "sig", "certMissing", "certSize"})
       => loc["R"].written = <<>>
  /\ RejectedAuth({"version"}) => loc["R"].written = <<loc["R"].authRespPacket>>

C39_Witness ==
  /\ RejectedAuth({"version"})
  /\ loc["R"].written # <<>>
  /\ wire["I"] # <<>>

\* the 24-bit length in the header of the frame that the last WriteMsg of
\* side s wrote, read back from the bytes on the wire
HeaderLength(s) ==
  readInt24(XORKeyStream(lastW[s].before.aes, lastW[s].before.enc,
                         TakeB(lastW[s].out, Big(16))))
\* msg.Size as WriteMsg frames it: the declared size, or the length of the
\* compressed payload on a codec that compresses
FramedSize(f, m) == IF f.snappy THEN BLen(SnappyEncode(m.Payload)) ELSE m.Size

\* C38: for every 32-bit declared message size, the 24-bit length that
\* WriteMsg puts in the frame header equals size(typeTag) + msg.Size, the
\* sum taken without 32-bit wrap-around, so that a declared size close to
\* 2^32 does not pass the limit check.
C38_NoWrap ==
  \A s \in Sides :
    lastW[s].called /\ lastW[s].err = "none"
      => /\ HeaderLength(s) >= 0
         /\ Big(HeaderLength(s)) =
              BAdd(BLen(EncodeCode(lastW[s].msg.Code)), FramedSize(lastW[s].before, lastW[s].msg))

\* C40: once a ReadMsg on a connection has failed with a header-MAC or a
\* frame-MAC mismatch, no later ReadMsg on that connection returns a
\* message successfully, whatever bytes arrive afterwards.
C40_MismatchIsFinal ==
  \A d \in Sides : \A i, j \in 1..Len(rcvd[d]) :
    i < j /\ rcvd[d][i].err \in MACErrors => rcvd[d][j].err # "none"

\* C37: after doProtoHandshake has succeeded on both ends of a connection,
\* for every pair of advertised versions, the two ends hold the same
\* compression flag.
C37_SameCompression ==
  (\A s \in Sides : ph[s].pc = "returned" /\ ph[s].ret = "none")
    => rw["I"].snappy = rw["R"].snappy

(***************************************************************************)
(* doProtoHandshake on side R of an established connection whose peer I    *)
(* writes what it likes as its first frames: handshake messages with       *)
(* identities of 63, 64 and 65 bytes and with an all-zero identity,        *)
(* payloads that are no handshake, disconnect messages, other codes, and   *)
(* each of these at and above baseProtocolMaxMsgSize.                      *)
(***************************************************************************)
HelloMsgs ==
  {Msg(0, Handshake(5, 64, TRUE, 80)), Msg(0, Handshake(4, 64, TRUE, baseProtocolMaxMsgSize)),
   Msg(0, Handshake(5, 64, TRUE, baseProtocolMaxMsgSize + 1)),
   Msg(0, Handshake(5, 64, FALSE, 80)), Msg(0, Handshake(5, 63, TRUE, 79)),
   Msg(0, Handshake(5, 65, TRUE, 81)), Msg(0, Handshake(5, 0, FALSE, 16)),
   Msg(0, Const(7, 1)), Msg(0, <<>>),
   DiscMsg("DiscRequested"), DiscMsg("DiscProtocolError"), Msg(1, <<>>),
   Msg(1, Cat(Bytes(<<193, 2>>), Data(Big(baseProtocolMaxMsgSize)))),
   Msg(16, Data(Big(20))), Msg(16, Data(Big(baseProtocolMaxMsgSize + 1))),
   Msg(2, Handshake(5, 64, TRUE, 80))}

HelloNext ==
  \/ \E m \in HelloMsgs : FrameWrite("I", m)
  \/ ProtoStart("R")
  \/ ProtoSend("R")
  \/ ProtoDeliver("R")
  \/ ProtoRead("R")
  \/ ProtoReturn("R")

SpecHello == Established([s \in Sides |-> FALSE]) /\ [][HelloNext]_vars

\* the first message that the peer of R wrote, the one R's
\* readProtocolHandshake has read
FirstFrame == sent["I"][1].msg
HasRead(s) == ph[s].pc \in {"read", "returned"}
GoodIdentity(payload) == payload[1].x[3] = <<64, TRUE>>

CloseErrors == {"DiscRequested", "DiscNetworkError", "DiscProtocolError", "other"}

CloseNext ==
  \/ \E g \in Goroutines : \E op \in {"read", "write", "close"} : Lock("I", g, op)
  \/ \E g \in Goroutines : Unlock("I", g)
  \/ \E g \in Goroutines :
        gor["I"][g].op = "read" /\ ~Performed("I", g) /\ TransportRead("I")
  \/ \E g \in Goroutines : \E m \in AuthMsgs :
        gor["I"][g].op = "write" /\ ~Performed("I", g) /\ TransportWrite("I", m)
  \/ \E g \in Goroutines : \E e \in CloseErrors :
        gor["I"][g].op = "close" /\ ~Performed("I", g) /\ Close("I", e)
  \/ \E m \in AuthMsgs : FrameWrite("R", m)

SpecClose == LifeInit /\ [][CloseNext]_vars

\* the step in which a close call closes the connection of side s
Closes(s) == pc[s] # "closed" /\ pc'[s] = "closed"
\* the disconnect messages of the reasons that close sends
SentReasons == {DiscMsg(e) : e \in {"DiscRequested", "DiscProtocolError"}}

\* C34: close(err) sends a disconnect frame only when the frame codec
\* exists, err is a disconnect reason other than DiscNetworkError and the
\* write deadline was set; it holds the write mutex during the whole call,
\* so that no other frame is written meanwhile, and never the read mutex;
\* and in every case it has closed the connection, after the send if any,
\* when it returns.
C34_CloseSends ==
  [][/\ Closes("I") =>
          /\ \E g \in Goroutines :
               /\ gor["I"][g].op = "close" /\ gor'["I"][g].op = "close"
               /\ mu["I"]["wmu"] = g /\ mu'["I"]["wmu"] = g
               /\ mu["I"]["rmu"] # g /\ mu'["I"]["rmu"] # g
          /\ sent'["I"] # sent["I"] =>
               /\ rw["I"].live
               /\ LastOf(sent'["I"]).msg \in SentReasons
               /\ deadline'["I"].wd = "armed"
               /\ Len(sent'["I"]) = Len(sent["I"]) + 1
          /\ ~rw["I"].live => wire' = wire
     /\ sent'["I"] # sent["I"] =>
          \E g \in Goroutines :
            /\ mu["I"]["wmu"] = g
            /\ gor["I"][g].op = IF Closes("I") THEN "close" ELSE "write"
     /\ \A g \in Goroutines :
          /\ gor["I"][g].op = "close" => mu["I"]["wmu"] = g
          /\ (gor["I"][g].op = "close" /\ gor'["I"][g].op # "close") => pc["I"] = "closed"]_vars

\* close has sent the reason and closed the connection and still holds the
\* write mutex, while another goroutine is inside ReadMsg
C34_Witness ==
  \E g, r \in Goroutines :
    /\ gor["I"][g].op = "close" /\ pc["I"] = "closed"
    /\ sent["I"] # <<>> /\ LastOf(sent["I"]).msg = DiscMsg("DiscProtocolError")
    /\ gor["I"][r].op = "read" /\ mu["I"]["rmu"] = r /\ mu["I"]["wmu"] = g

(***************************************************************************)
(* The lru of consensus/minerva: a simplelru.LRU of the items by epoch and *)
(* the item built ahead for the epoch after the highest one requested.     *)
(* An epoch is a uint64, written here as three limbs of 16, 24 and 24      *)
(* bits.  An item is written <<epoch, serial>>, serial being the number of *)
(* the call of lru.new that built it, so that two items built for one      *)
(* epoch differ; nil is <<>>.  maxEpoch is declared in the minerva package *)
(* next to minerva.go.                                                     *)
(***************************************************************************)
maxEpoch == 2048
MaxGets == 4

Nil == <<>>
U64(n) == <<0, 0, n>>
MaxU64 == <<65535, Limb - 1, Limb - 1>>
\* e + 1 in uint64
IncU64(e) ==
  IF e[3] < Limb - 1 THEN <<e[1], e[2], e[3] + 1>>
  ELSE IF e[2] < Limb - 1 THEN <<e[1], e[2] + 1, 0>>
  ELSE <<(e[1] + 1) % 65536, 0, 0>>
LtU64(a, b) ==
  \/ a[1] < b[1]
  \/ a[1] = b[1] /\ a[2] < b[2]
  \/ a[1] = b[1] /\ a[2] = b[2] /\ a[3] < b[3]

\* simplelru.LRU, the most recently used entry first
LRUIndex(cache, key) ==
  IF \E i \in 1..Len(cache) : cache[i].key = key
  THEN CHOOSE i \in 1..Len(cache) : cache[i].key = key
  ELSE 0
LRUWithout(cache, i) == SubSeq(cache, 1, i - 1) \o SubSeq(cache, i + 1, Len(cache))
\* LRU.Get: the entry moves to the front
LRUGet(cache, key) == <<cache[LRUIndex(cache, key)]>> \o LRUWithout(cache, LRUIndex(cache, key))
\* LRU.Add of a key that is not held: the oldest entry goes when the cache is full
LRUAdd(cache, key, value, size) ==
  SubSeq(<<[key |-> key, value |-> value]>> \o cache, 1,
         IF Len(cache) + 1 > size THEN size ELSE Len(cache) + 1)

\* newlru
newlru(maxItems) == [NoLRU EXCEPT !.max = IF maxItems <= 1 THEN 5 ELSE maxItems]

\* lru.get that builds a new item whenever the epoch is not in the cache
get_AlwaysBuilds(l, epoch) ==
  LET hit == LRUIndex(l.cache, epoch) > 0
      item == IF hit THEN LRUGet(l.cache, epoch)[1].value ELSE <<epoch, l.built + 1>>
      built1 == IF hit THEN l.built ELSE l.built + 1
      cache1 == IF hit THEN LRUGet(l.cache, epoch) ELSE LRUAdd(l.cache, epoch, item, l.max)
      ahead == LtU64(epoch, U64(maxEpoch - 1)) /\ LtU64(l.future, IncU64(epoch))
      future == IF ahead THEN IncU64(epoch) ELSE l.future
      futureItem == IF ahead THEN <<IncU64(epoch), built1 + 1>> ELSE l.futureItem
  IN [cache |-> cache1, max |-> l.max, future |-> future, futureItem |-> futureItem,
      built |-> IF ahead THEN built1 + 1 ELSE built1,
      epoch |-> epoch, item |-> item,
      ret |-> IF IncU64(epoch) # future THEN Nil ELSE futureItem,
      gets |-> l.gets + 1]

\* lru.get(epoch) on the lru l: the lru after the call, with the epoch asked
\* for, the two values returned (item, ret) and the number of calls so far
get(l, epoch) ==
  LET hit == LRUIndex(l.cache, epoch) > 0
      reuse == ~hit /\ LtU64(U64(0), l.future) /\ l.future = epoch
      item == IF hit THEN LRUGet(l.cache, epoch)[1].value
              ELSE IF reuse THEN l.futureItem
              ELSE <<epoch, l.built + 1>>
      built1 == IF hit \/ reuse THEN l.built ELSE l.built + 1
      cache1 == IF hit THEN LRUGet(l.cache, epoch) ELSE LRUAdd(l.cache, epoch, item, l.max)
      ahead == LtU64(epoch, U64(maxEpoch - 1)) /\ LtU64(l.future, IncU64(epoch))
      future == IF ahead THEN IncU64(epoch) ELSE l.future
      futureItem == IF ahead THEN <<IncU64(epoch), built1 + 1>> ELSE l.futureItem
  IN [cache |-> cache1, max |-> l.max, future |-> future, futureItem |-> futureItem,
      built |-> IF ahead THEN built1 + 1 ELSE built1,
      epoch |-> epoch, item |-> item,
      ret |-> IF IncU64(epoch) # future THEN Nil ELSE futureItem,
      gets |-> l.gets + 1]

\* the epochs asked for: the first ones, those around maxEpoch - 1, the last
Epochs == {U64(0), U64(1), U64(2), U64(maxEpoch - 2), U64(maxEpoch - 1), U64(maxEpoch), MaxU64}

LRUStep(l) ==
  /\ lru' = l
  /\ UNCHANGED <<CryptoType, cfg, pc, h, loc, wire, sec, err, rw, sent, rcvd, lastW, lastR,
                 tampered, mu, gor, ph, deadline, call>>
LRUNew(maxItems) == lru = NoLRU /\ LRUStep(newlru(maxItems))
LRUGetCall(epoch) == lru.max > 0 /\ lru.gets < MaxGets /\ LRUStep(get(lru, epoch))

LRUInit == SigInit /\ CryptoType = "P256"
LRUNext ==
  \/ \E maxItems \in {0, 2} : LRUNew(maxItems)
  \/ \E epoch \in Epochs : LRUGetCall(epoch)

SpecLRU == LRUInit /\ [][LRUNext]_vars

\* C36: in every lru.get the first value returned is not nil; lru.future
\* does not decrease; the second value returned is not nil exactly when
\* lru.future is epoch + 1 when the call ends, and it is then the item built
\* for epoch + 1; and a get for the epoch that is the future epoch, when it
\* is not in the cache, returns the future item built before and builds no
\* item for that epoch.
C36_Get ==
  [][lru'.gets = lru.gets + 1 =>
       /\ lru'.item # Nil /\ lru'.item[1] = lru'.epoch
       /\ ~LtU64(lru'.future, lru.future)
       /\ lru'.ret # Nil <=> (lru'.epoch # MaxU64 /\ lru'.future = IncU64(lru'.epoch))
       /\ lru'.ret # Nil => lru'.ret = lru'.futureItem /\ lru'.ret[1] = IncU64(lru'.epoch)
       /\ (/\ lru.futureItem # Nil
           /\ lru.future = lru'.epoch
           /\ LRUIndex(lru.cache, lru'.epoch) = 0)
            => /\ lru'.item = lru.futureItem
               /\ \A i \in 1..Len(lru'.cache) :
                    lru'.cache[i].key = lru'.epoch => lru'.cache[i].value = lru.futureItem
               /\ lru'.built <= lru.built + 1]_vars

\* get(0) and then get(1): the second call returns the item that the first
\* built ahead, and the item built ahead for epoch 2
C36_Witness ==
  /\ lru.gets = 2 /\ lru.epoch = U64(1)
  /\ lru.item = <<U64(1), 2>> /\ lru.ret = <<U64(2), 3>>
  /\ lru.future = U64(2)

====
